---- MODULE Spec2Model ----
(***************************************************************************)
(* A model of git-vendor: the attribute-line model of git-set-attr, the    *)
(* vendor pattern registry kept in .gitattributes, the tree filter of      *)
(* git-filter-tree, and the fetch and merge operations of the Vendor trait.*)
(*                                                                         *)
(* A string is a sequence of symbols, so that trimming, tokenising,        *)
(* prefix stripping and line splitting are computed the way the Rust code  *)
(* computes them.  A symbol is one character, or one word of the program's *)
(* vocabulary taken whole ("vendored", "vendor-name", "true", "git", ...): *)
(* on the strings the model builds, no operation of the code cuts inside   *)
(* such a word.  An Option<T> is a sequence of length 0 (None) or 1 (Some).*)
(***************************************************************************)
EXTENDS Integers, Sequences, FiniteSets, TLC

VARIABLES
    bare,       \* Repository::is_bare()
    file,       \* the .gitattributes file: [exists, content]
    last,       \* the last manifest operation: its arguments, the file before it, its result
    calls,      \* the number of set_attr calls made so far
    tree,       \* the tree handed to filter_by_patterns
    patterns,   \* the pattern list handed to filter_by_patterns
    once,       \* Option<Result<Tree>>: filter_by_patterns(tree, patterns)
    twice,      \* Option<Result<Tree>>: filter_by_patterns applied to the tree of `once`
    repo,       \* the repository: HEAD, commits, refs, index, working area, MERGE_HEAD, MERGE_MSG
    mlast       \* the last vendor_status / vendor_fetch / vendor_merge call: arguments,
                \* the repository before it, its result

vars == <<bare, file, last, calls, tree, patterns, once, twice, repo, mlast>>

-----------------------------------------------------------------------------
(* Characters and string primitives (Rust str)                             *)

LF == "\n"
CR == "\r"
SP == " "

\* char::is_whitespace, on the characters the model uses
IsWhitespace(c) == c = SP \/ c = "\t" \/ c = LF \/ c = CR

None == <<>>
Some(x) == <<x>>
IsSome(o) == Len(o) = 1

Drop(s, n) == SubSeq(s, n + 1, Len(s))
Take(s, n) == SubSeq(s, 1, n)

\* str::starts_with
StartsWith(s, p) == Len(s) >= Len(p) /\ Take(s, Len(p)) = p

\* str::ends_with
EndsWith(s, p) == Len(s) >= Len(p) /\ Drop(s, Len(s) - Len(p)) = p

\* the first position >= i of the symbol c in s; 0 when there is none
RECURSIVE FindCharFrom(_, _, _)
FindCharFrom(s, c, i) ==
    IF i > Len(s) THEN 0
    ELSE IF s[i] = c THEN i
    ELSE FindCharFrom(s, c, i + 1)

\* the first position >= i at which p occurs in s; 0 when there is none
RECURSIVE FindFrom(_, _, _)
FindFrom(s, p, i) ==
    IF Len(p) = 1 THEN FindCharFrom(s, p[1], i)
    ELSE IF i + Len(p) - 1 > Len(s) THEN 0
    ELSE IF SubSeq(s, i, i + Len(p) - 1) = p THEN i
    ELSE FindFrom(s, p, i + 1)

\* str::find, 1-based; 0 when the needle does not occur
Find(s, p) == FindFrom(s, p, 1)

\* the first position >= i of a whitespace (ws = TRUE) or non-whitespace
\* (ws = FALSE) character of s; Len(s) + 1 when there is none
RECURSIVE Scan(_, _, _)
Scan(s, i, ws) ==
    IF i > Len(s) THEN i
    ELSE IF IsWhitespace(s[i]) = ws THEN i
    ELSE Scan(s, i + 1, ws)

\* the last position <= i of a non-whitespace character of s; 0 when there is none
RECURSIVE ScanBack(_, _)
ScanBack(s, i) ==
    IF i = 0 THEN 0
    ELSE IF ~IsWhitespace(s[i]) THEN i
    ELSE ScanBack(s, i - 1)

\* str::contains(char::is_whitespace)
ContainsWhitespace(s) == Scan(s, 1, TRUE) <= Len(s)

\* str::trim
Trim(s) == SubSeq(s, Scan(s, 1, FALSE), ScanBack(s, Len(s)))

\* str::split_whitespace: the maximal runs of non-whitespace, in order
RECURSIVE SplitWhitespaceFrom(_, _)
SplitWhitespaceFrom(s, i) ==
    LET a == Scan(s, i, FALSE)
        b == Scan(s, a, TRUE)
    IN  IF a > Len(s) THEN <<>>
        ELSE <<SubSeq(s, a, b - 1)>> \o SplitWhitespaceFrom(s, b)

SplitWhitespace(s) == SplitWhitespaceFrom(s, 1)

\* str::split(sep) for a one-character separator
RECURSIVE SplitCharFrom(_, _, _)
SplitCharFrom(s, c, i) ==
    LET j == FindFrom(s, <<c>>, i)
    IN  IF j = 0 THEN <<SubSeq(s, i, Len(s))>>
        ELSE <<SubSeq(s, i, j - 1)>> \o SplitCharFrom(s, c, j + 1)

SplitChar(s, c) == SplitCharFrom(s, c, 1)

\* BufRead::lines and str::lines: lines end at "\n"; a "\r" right before that
\* "\n" belongs to the line ending; a last line without "\n" is a line too.
RECURSIVE LinesFrom(_, _)
LinesFrom(content, i) ==
    IF i > Len(content) THEN <<>>
    ELSE LET j == FindFrom(content, <<LF>>, i)
         IN  IF j = 0 THEN <<SubSeq(content, i, Len(content))>>
             ELSE LET e == IF j > i /\ content[j - 1] = CR THEN j - 2 ELSE j - 1
                  IN  <<SubSeq(content, i, e)>> \o LinesFrom(content, j + 1)

Lines(content) == LinesFrom(content, 1)

\* for line in lines { writeln!(file, "{line}") }
RECURSIVE WriteLines(_)
WriteLines(lines) ==
    IF lines = <<>> THEN <<>>
    ELSE Head(lines) \o <<LF>> \o WriteLines(Tail(lines))

-----------------------------------------------------------------------------
(* git-set-attr: the attribute line model                                  *)

STATE_SET         == <<"set">>
STATE_UNSET       == <<"unset">>
STATE_UNSPECIFIED == <<"unspecified">>
STATE_VALUE       == <<"value", ":">>
STR_TRUE          == <<"true">>
STR_FALSE         == <<"false">>

\* a parse that takes `true` and `false` after `=` for values like any other
parse_attribute_string_literal(attr0) ==
    LET attr == Trim(attr0)
        eq   == Find(attr, <<"=">>)
    IN  IF StartsWith(attr, <<"-">>) THEN
            [name |-> Drop(attr, 1), state |-> STATE_UNSET]
        ELSE IF StartsWith(attr, <<"!">>) THEN
            [name |-> Drop(attr, 1), state |-> STATE_UNSPECIFIED]
        ELSE IF eq > 0 THEN
            [name |-> Take(attr, eq - 1), state |-> STATE_VALUE \o Drop(attr, eq)]
        ELSE [name |-> attr, state |-> STATE_SET]

\* parse_attribute_string: (name, state string) of one attribute token
parse_attribute_string(attr0) ==
    LET attr == Trim(attr0)
        eq   == Find(attr, <<"=">>)
    IN  IF StartsWith(attr, <<"-">>) THEN
            [name |-> Drop(attr, 1), state |-> STATE_UNSET]
        ELSE IF StartsWith(attr, <<"!">>) THEN
            [name |-> Drop(attr, 1), state |-> STATE_UNSPECIFIED]
        ELSE IF eq > 0 THEN
            LET name  == Take(attr, eq - 1)
                value == Drop(attr, eq)
            IN  IF value = STR_TRUE THEN [name |-> name, state |-> STATE_SET]
                ELSE IF value = STR_FALSE THEN [name |-> name, state |-> STATE_UNSET]
                ELSE [name |-> name, state |-> STATE_VALUE \o value]
        ELSE [name |-> attr, state |-> STATE_SET]

\* the closure `has_whitespace` of validate_attributes
has_whitespace(s) == s = <<>> \/ ContainsWhitespace(s)

\* validate_attribute with the `!` branch left out: a `!` prefix is taken for
\* the start of a plain name
validate_attribute_without_bang(attr0) ==
    LET attr == Trim(attr0)
        eq   == Find(attr, <<"=">>)
    IN  IF attr = <<>> THEN TRUE
        ELSE IF StartsWith(attr, <<"-">>) THEN ~has_whitespace(Drop(attr, 1))
        ELSE IF eq > 0 THEN ~has_whitespace(Take(attr, eq - 1))
        ELSE ~ContainsWhitespace(attr)

\* one iteration of the loop of validate_attributes: TRUE when the token is let through
validate_attribute(attr0) ==
    LET attr == Trim(attr0)
        eq   == Find(attr, <<"=">>)
    IN  IF attr = <<>> THEN TRUE
        ELSE IF StartsWith(attr, <<"-">>) THEN ~has_whitespace(Drop(attr, 1))
        ELSE IF StartsWith(attr, <<"!">>) THEN ~has_whitespace(Drop(attr, 1))
        ELSE IF eq > 0 THEN ~has_whitespace(Take(attr, eq - 1))
        ELSE ~ContainsWhitespace(attr)

\* validate_attributes: TRUE for Ok(()), FALSE for Err
validate_attributes(attributes) ==
    \A i \in 1..Len(attributes) : validate_attribute(attributes[i])

\* format_attribute_line
RECURSIVE format_attribute_line(_, _)
format_attribute_line(pattern, attributes) ==
    IF attributes = <<>> THEN pattern
    ELSE LET n    == Len(attributes)
             attr == Trim(attributes[n])
             line == format_attribute_line(pattern, Take(attributes, n - 1))
         IN  IF attr = <<>> THEN line ELSE line \o <<SP>> \o attr

\* an insert that keeps the state a name already has (entry().or_insert())
MapInsertKeeping(m, name, state) ==
    [k \in DOMAIN m \cup {name} |-> IF k \in DOMAIN m THEN m[k] ELSE state]

\* HashMap::insert on a map kept as a function from names to state strings
MapInsert(m, name, state) ==
    [k \in DOMAIN m \cup {name} |-> IF k = name THEN state ELSE m[k]]

\* for attr_str in parts { existing_attrs.insert(parse_attribute_string(attr_str)) }
RECURSIVE InsertAttrs(_, _)
InsertAttrs(m, parts) ==
    IF parts = <<>> THEN m
    ELSE LET a == parse_attribute_string(Head(parts))
         IN  InsertAttrs(MapInsert(m, a.name, a.state), Tail(parts))

\* the first loop of filter_new_attributes: the map of the lines for `pattern`
RECURSIVE existing_attrs(_, _, _)
existing_attrs(m, pattern, lines) ==
    IF lines = <<>> THEN m
    ELSE LET trimmed == Trim(Head(lines))
             parts   == SplitWhitespace(trimmed)
         IN  IF trimmed = <<>> \/ StartsWith(trimmed, <<"#">>) THEN
                 existing_attrs(m, pattern, Tail(lines))
             ELSE IF Head(parts) = pattern THEN
                 existing_attrs(InsertAttrs(m, Tail(parts)), pattern, Tail(lines))
             ELSE existing_attrs(m, pattern, Tail(lines))

EmptyMap == [k \in {} |-> <<>>]

\* a second loop that compares nothing with the map: every candidate that is
\* not blank is new
RECURSIVE NewAttrsUnfiltered(_, _)
NewAttrsUnfiltered(m, attributes) ==
    IF attributes = <<>> THEN <<>>
    ELSE LET attr_str == Trim(Head(attributes))
             rest     == NewAttrsUnfiltered(m, Tail(attributes))
         IN  IF attr_str = <<>> THEN rest ELSE <<attr_str>> \o rest

\* the second loop of filter_new_attributes
RECURSIVE NewAttrs(_, _)
NewAttrs(m, attributes) ==
    IF attributes = <<>> THEN <<>>
    ELSE LET attr_str == Trim(Head(attributes))
             a        == parse_attribute_string(attr_str)
             rest     == NewAttrs(m, Tail(attributes))
         IN  IF attr_str = <<>> THEN rest
             ELSE IF a.name \in DOMAIN m /\ m[a.name] = a.state THEN rest
             ELSE <<attr_str>> \o rest

filter_new_attributes(pattern, attributes, lines) ==
    NewAttrs(existing_attrs(EmptyMap, pattern, lines), attributes)

\* SetAttr::set_attr on the file at the resolved path: [ok, file]
NoFile == [exists |-> FALSE, content |-> <<>>]

ReadFile(f) == IF f.exists THEN Lines(f.content) ELSE <<>>

\* set_attr putting the new line first (lines.insert(0, ..)) instead of last
set_attr_prepending(pattern, attributes, f) ==
    IF ~validate_attributes(attributes) THEN [ok |-> FALSE, file |-> f]
    ELSE LET lines     == ReadFile(f)
             new_attrs == filter_new_attributes(pattern, attributes, lines)
             out       == IF new_attrs # <<>>
                          THEN <<format_attribute_line(pattern, new_attrs)>> \o lines
                          ELSE lines
         IN  [ok |-> TRUE, file |-> [exists |-> TRUE, content |-> WriteLines(out)]]

set_attr(pattern, attributes, f) ==
    IF ~validate_attributes(attributes) THEN [ok |-> FALSE, file |-> f]
    ELSE LET lines     == ReadFile(f)
             new_attrs == filter_new_attributes(pattern, attributes, lines)
             out       == IF new_attrs # <<>>
                          THEN Append(lines, format_attribute_line(pattern, new_attrs))
                          ELSE lines
         IN  [ok |-> TRUE, file |-> [exists |-> TRUE, content |-> WriteLines(out)]]

-----------------------------------------------------------------------------
(* git-vendor: the pattern registry                                        *)

VENDORED       == <<"vendored">>
VENDOR_NAME    == <<"vendor-name", "=">>
VENDOR_URL     == <<"vendor-url", "=">>
VENDOR_BRANCH  == <<"vendor-branch", "=">>
REFS_VENDOR    == <<"refs", "/", "vendor", "/">>
SCHEME_SEP     == <<":", "/", "/">>
DOT_GIT        == <<".", "git">>

\* the messages of the errors of the registry operations
ERR_BARE       == "This operation is not supported in a bare repository"
ERR_EMPTY_NAME == "Vendor dependency name must not be empty"
ERR_NO_NAME    == "Cannot derive a vendor name from a local path"
ERR_SET_ATTR   == "set_attr"

\* a repository without working area accepted as if it had one
require_non_bare_skipped(is_bare) == TRUE

\* require_non_bare: TRUE for Ok(())
require_non_bare(is_bare) == ~is_bare

\* is_remote_url
is_remote_url(url) ==
    IF Find(url, SCHEME_SEP) > 0 THEN TRUE
    ELSE LET at == Find(url, <<"@">>)
         IN  IF at = 0 THEN FALSE
             ELSE LET colon == Find(Drop(url, at - 1), <<":">>)
                      \* 0-based positions, as in the code
                      at0       == at - 1
                      colon_pos == at0 + (colon - 1)
                  IN  /\ colon > 0
                      /\ Find(Take(url, at0), <<"/">>) = 0
                      /\ colon_pos + 1 < Len(url)

\* str::trim_end_matches('/')
RECURSIVE TrimEndSlashes(_)
TrimEndSlashes(s) ==
    IF s # <<>> /\ s[Len(s)] = "/" THEN TrimEndSlashes(Take(s, Len(s) - 1)) ELSE s

\* cleaned.split("://").nth(1)
SplitSchemeNth1(s) ==
    LET i == Find(s, SCHEME_SEP)
    IN  IF i = 0 THEN None
        ELSE LET after == Drop(s, i + 2)
                 j     == Find(after, SCHEME_SEP)
             IN  Some(IF j = 0 THEN after ELSE Take(after, j - 1))

\* name_from_url: Option<String>
name_from_url(url) ==
    IF ~is_remote_url(url) THEN None
    ELSE LET trimmed == TrimEndSlashes(url)
             cleaned == IF EndsWith(trimmed, DOT_GIT)
                        THEN Take(trimmed, Len(trimmed) - Len(DOT_GIT)) ELSE trimmed
             rest    == SplitSchemeNth1(cleaned)
             at      == Find(cleaned, <<"@">>)
             path    == IF IsSome(rest) THEN
                            LET i == Find(rest[1], <<"/">>)
                            IN  IF i = 0 THEN None ELSE Some(Drop(rest[1], i))
                        ELSE IF at > 0 THEN
                            LET i == Find(Drop(cleaned, at - 1), <<":">>)
                            IN  IF i = 0 THEN None ELSE Some(Drop(cleaned, at - 1 + i))
                        ELSE None
         IN  IF ~IsSome(path) THEN None
             ELSE LET segments == SelectSeq(SplitChar(path[1], "/"), LAMBDA x : x # <<>>)
                      n        == Len(segments)
                  IN  IF n < 2 THEN None
                      ELSE Some(segments[n - 1] \o <<"/">> \o segments[n])

\* resolve_name deriving the name from the url whenever it can, and using the
\* explicit name only as a fallback
resolve_name_url_first(url, maybe_name) ==
    IF IsSome(name_from_url(url)) THEN name_from_url(url)
    ELSE IF IsSome(maybe_name) /\ maybe_name[1] # <<>> THEN Some(maybe_name[1])
    ELSE None

\* resolve_name: Option<String>, None for Err
resolve_name(url, maybe_name) ==
    IF IsSome(maybe_name) THEN
        IF maybe_name[1] = <<>> THEN None ELSE Some(maybe_name[1])
    ELSE name_from_url(url)

\* vendor_ref_name
vendor_ref_name(name) == REFS_VENDOR \o name

\* the attribute loop of parse_vendor_deps over the tokens after the pattern
RECURSIVE ScanVendorAttrs(_, _)
ScanVendorAttrs(acc, parts) ==
    IF parts = <<>> THEN acc
    ELSE LET attr == Head(parts)
             nxt  == IF attr = VENDORED THEN [acc EXCEPT !.is_vendored = TRUE]
                     ELSE IF StartsWith(attr, VENDOR_NAME) THEN
                         [acc EXCEPT !.name = Some(Drop(attr, Len(VENDOR_NAME)))]
                     ELSE IF StartsWith(attr, VENDOR_URL) THEN
                         [acc EXCEPT !.url = Some(Drop(attr, Len(VENDOR_URL)))]
                     ELSE IF StartsWith(attr, VENDOR_BRANCH) THEN
                         [acc EXCEPT !.branch = Some(Drop(attr, Len(VENDOR_BRANCH)))]
                     ELSE acc
         IN  ScanVendorAttrs(nxt, Tail(parts))

\* a line loop body that asks for the marker and the url only
ParseVendorLineUnnamed(line) ==
    LET trimmed == Trim(line)
        parts   == SplitWhitespace(trimmed)
    IN  IF trimmed = <<>> \/ StartsWith(trimmed, <<"#">>) THEN <<>>
        ELSE LET a == ScanVendorAttrs(
                        [name |-> None, url |-> None, branch |-> None, is_vendored |-> FALSE],
                        Tail(parts))
             IN  IF a.is_vendored /\ IsSome(a.url) THEN
                     <<[name |-> IF IsSome(a.name) THEN a.name[1] ELSE <<>>,
                        pattern |-> Head(parts), url |-> a.url[1], branch |-> a.branch]>>
                 ELSE <<>>

\* the body of the line loop of parse_vendor_deps: the dependencies of one line (0 or 1)
ParseVendorLine(line) ==
    LET trimmed == Trim(line)
        parts   == SplitWhitespace(trimmed)
    IN  IF trimmed = <<>> \/ StartsWith(trimmed, <<"#">>) THEN <<>>
        ELSE LET a == ScanVendorAttrs(
                        [name |-> None, url |-> None, branch |-> None, is_vendored |-> FALSE],
                        Tail(parts))
             IN  IF ~a.is_vendored THEN <<>>
                 ELSE IF IsSome(a.name) /\ IsSome(a.url) THEN
                     <<[name |-> a.name[1], pattern |-> Head(parts),
                        url |-> a.url[1], branch |-> a.branch]>>
                 ELSE <<>>

RECURSIVE ParseVendorLines(_)
ParseVendorLines(lines) ==
    IF lines = <<>> THEN <<>>
    ELSE ParseVendorLine(Head(lines)) \o ParseVendorLines(Tail(lines))

\* parse_vendor_deps: the VendorDep list of the manifest
parse_vendor_deps(f) == ParseVendorLines(ReadFile(f))

\* is_vendor_line_for_pattern without the test for a vendor attribute
is_line_for_pattern(line, pattern) ==
    LET trimmed == Trim(line)
        parts   == SplitWhitespace(trimmed)
    IN  /\ trimmed # <<>>
        /\ ~StartsWith(trimmed, <<"#">>)
        /\ Head(parts) = pattern

\* is_vendor_line_for_pattern
is_vendor_line_for_pattern(line, pattern) ==
    LET trimmed == Trim(line)
        parts   == SplitWhitespace(trimmed)
    IN  /\ trimmed # <<>>
        /\ ~StartsWith(trimmed, <<"#">>)
        /\ Head(parts) = pattern
        /\ \E i \in 2..Len(parts) :
              \/ parts[i] = VENDORED
              \/ StartsWith(parts[i], VENDOR_NAME)
              \/ StartsWith(parts[i], VENDOR_URL)
              \/ StartsWith(parts[i], VENDOR_BRANCH)

\* remove_vendor_lines: the file after the call
remove_vendor_lines(f, pattern) ==
    IF ~f.exists THEN f
    ELSE LET kept == SelectSeq(Lines(f.content),
                               LAMBDA line : ~is_vendor_line_for_pattern(line, pattern))
         IN  [exists |-> TRUE, content |-> WriteLines(kept)]

\* filter_deps
filter_deps(deps, filter) ==
    IF ~IsSome(filter) THEN deps
    ELSE SelectSeq(deps, LAMBDA d : d.pattern = filter[1])

\* Vendor::track_pattern: [ok, err, file, read]; `read` tells whether the
\* manifest was read
track_pattern(is_bare, pattern, url, maybe_branch, maybe_name, f) ==
    IF ~require_non_bare(is_bare) THEN
        [ok |-> FALSE, err |-> ERR_BARE, file |-> f, read |-> FALSE]
    ELSE LET name == resolve_name(url, maybe_name)
         IN  IF ~IsSome(name) THEN
                 [ok |-> FALSE,
                  err |-> IF IsSome(maybe_name) THEN ERR_EMPTY_NAME ELSE ERR_NO_NAME,
                  file |-> f, read |-> FALSE]
             ELSE LET name_attr == VENDOR_NAME \o name[1]
                      url_attr  == VENDOR_URL \o url
                      attrs     == <<VENDORED, name_attr, url_attr>> \o
                                   (IF IsSome(maybe_branch)
                                    THEN <<VENDOR_BRANCH \o maybe_branch[1]>> ELSE <<>>)
                  IN  CHOOSE res \in
                          {[ok |-> r.ok, err |-> IF r.ok THEN "" ELSE ERR_SET_ATTR,
                            file |-> r.file, read |-> r.ok] :
                              r \in {set_attr(pattern, attrs, f)}} : TRUE

\* Vendor::untrack_pattern: [ok, err, file, read]
untrack_pattern(is_bare, pattern, f) ==
    IF ~require_non_bare(is_bare) THEN
        [ok |-> FALSE, err |-> ERR_BARE, file |-> f, read |-> FALSE]
    ELSE IF ~f.exists THEN [ok |-> TRUE, err |-> "", file |-> f, read |-> FALSE]
    ELSE [ok |-> TRUE, err |-> "", file |-> remove_vendor_lines(f, pattern), read |-> TRUE]

-----------------------------------------------------------------------------
(* git-filter-tree                                                         *)
(*                                                                         *)
(* A tree is the sequence of its entries in name order.  The object store  *)
(* is content-addressed, so the id of a tree is modelled by the tree       *)
(* itself: two trees have the same id iff they are equal.  An entry of     *)
(* kind "tree" carries its subtree in `sub`; `loadable` is FALSE when the  *)
(* object it names cannot be read from the store.                          *)

\* globset with default options, for patterns made of literals, `*` and `?`:
\* both wildcards also match `/` (literal_separator is off)
RECURSIVE GlobMatch(_, _)
GlobMatch(p, s) ==
    IF p = <<>> THEN s = <<>>
    ELSE IF Head(p) = "*" THEN \E k \in 0..Len(s) : GlobMatch(Tail(p), Drop(s, k))
    ELSE IF Head(p) = "?" THEN s # <<>> /\ GlobMatch(Tail(p), Tail(s))
    ELSE s # <<>> /\ Head(s) = Head(p) /\ GlobMatch(Tail(p), Tail(s))

\* globset::Glob::new: an unclosed character class is a parse error
GlobNew(p) == ~(Find(p, <<"[">>) > 0 /\ Find(p, <<"]">>) = 0)

\* a matcher that consults its first pattern only
is_match_first(matcher, path) == matcher # <<>> /\ GlobMatch(matcher[1], path)

\* GlobSet::is_match: OR over the patterns
is_match(matcher, path) == \E i \in 1..Len(matcher) : GlobMatch(matcher[i], path)

\* the emptiness test made on the subtree as it was before filtering
KeepSubtreeUnfiltered(subtree, filtered_subtree) == Len(subtree) > 0

\* filtered_subtree.len() > 0
KeepSubtree(subtree, filtered_subtree) == Len(filtered_subtree) > 0

RECURSIVE filter_tree_recursive(_, _, _)
RECURSIVE FilterLoop(_, _, _, _)

\* the for loop of filter_tree_recursive over the entries still to visit;
\* acc is the tree builder and the tree objects written so far
FilterLoop(entries, prefix, matcher, acc) ==
    IF entries = <<>> THEN [ok |-> TRUE, builder |-> acc.builder, written |-> acc.written]
    ELSE LET entry     == Head(entries)
             full_path == IF prefix = <<>> THEN entry.name
                          ELSE prefix \o <<"/">> \o entry.name
         IN  IF entry.kind = "blob" THEN
                 FilterLoop(Tail(entries), prefix, matcher,
                            IF is_match(matcher, full_path)
                            THEN [acc EXCEPT !.builder = Append(@, entry)]
                            ELSE acc)
             ELSE IF entry.kind = "tree" THEN
                 IF ~entry.loadable THEN
                     \* entry.to_object(repo)? fails and leaves this call
                     [ok |-> FALSE, builder |-> acc.builder, written |-> acc.written]
                 ELSE LET r == filter_tree_recursive(entry.sub, full_path, matcher)
                          w == acc.written \cup r.written
                      IN  IF r.ok /\ KeepSubtree(entry.sub, r.tree) THEN
                              FilterLoop(Tail(entries), prefix, matcher,
                                         [builder |-> Append(acc.builder,
                                                             [entry EXCEPT !.sub = r.tree]),
                                          written |-> w])
                          ELSE FilterLoop(Tail(entries), prefix, matcher,
                                          [builder |-> acc.builder, written |-> w])
             ELSE FilterLoop(Tail(entries), prefix, matcher, acc)

\* the messages of the errors filter_by_patterns returns
ERR_NO_PATTERN      == "At least one pattern is required"
ERR_INVALID_PATTERN == "Invalid pattern"
ERR_STORE           == "object store"

\* filter_tree_recursive: [ok, err, tree, written]
filter_tree_recursive(t, prefix, matcher) ==
    LET r == FilterLoop(t, prefix, matcher, [builder |-> <<>>, written |-> {}])
    IN  IF r.ok THEN [ok |-> TRUE, err |-> "", tree |-> r.builder,
                      written |-> r.written \cup {r.builder}]
        ELSE [ok |-> FALSE, err |-> ERR_STORE, tree |-> <<>>, written |-> r.written]

\* the pattern check left out: the matcher of an empty set matches no path
filter_by_patterns_unchecked(t, pats) == filter_tree_recursive(t, <<>>, pats)

\* FilterTree::filter_by_patterns: [ok, err, tree, written]
filter_by_patterns(t, pats) ==
    IF pats = <<>> THEN
        [ok |-> FALSE, err |-> ERR_NO_PATTERN, tree |-> <<>>, written |-> {}]
    ELSE IF \E i \in 1..Len(pats) : ~GlobNew(pats[i]) THEN
        [ok |-> FALSE, err |-> ERR_INVALID_PATTERN, tree |-> <<>>, written |-> {}]
    ELSE filter_tree_recursive(t, <<>>, pats)

-----------------------------------------------------------------------------
(* The repository, and the fetch and merge operations of the Vendor trait  *)
(*                                                                         *)
(* A commit is the record [tree, parents, message]; as the store is        *)
(* content-addressed the record is also the id of the commit.  The         *)
(* repository is the record                                                *)
(*   [head, commits, refs, index, workdir, merge_head, merge_msg]          *)
(* head: Option<commit>, None on an unborn branch; commits: the commits of *)
(* the store; refs: the set of [name, target]; index: the set of index     *)
(* entries [path, blob, mode, stage]; workdir: the set of files            *)
(* [path, content] of the working area, the manifest left aside (it is     *)
(* the variable `file`); merge_head and merge_msg: the content of the      *)
(* files MERGE_HEAD and MERGE_MSG, None when the file does not exist.      *)

\* the messages of the errors of vendor_fetch and vendor_merge
ERR_NO_DEPS_FETCH == "No vendored dependencies to fetch"
ERR_NO_DEPS_MERGE == "No vendored dependencies to merge"
ERR_SINGLE_DEP    == "--no-commit and --squash require a single dependency"
ERR_REF_NOT_FOUND == "Vendor ref not found. Run fetch first."
ERR_CONFLICT      == "Conflicts detected while merging"
ERR_HEAD          == "reference 'HEAD' not found"
ERR_FETCH         == "fetch failed"

\* format!("Merge vendored dependency: {}", dep.name)
default_message(name) == <<"Merge vendored dependency: ">> \o name

\* VendorMergeOpts
VendorMergeOpts(no_commit, squash, message) ==
    [no_commit |-> no_commit, squash |-> squash, message |-> message]

\* the entry names of the model, in the order git keeps the entries of a tree
NameOrder == << <<"a">>, <<"b">>, <<"d">> >>

\* Index::read_tree: the stage-0 entries of a tree, one per entry that is not a directory
RECURSIVE read_tree(_, _)
read_tree(t, prefix) ==
    UNION { LET e    == t[i]
                path == IF prefix = <<>> THEN e.name ELSE prefix \o <<"/">> \o e.name
            IN  IF e.kind = "tree" THEN read_tree(e.sub, path)
                ELSE {[path |-> path, blob |-> e.blob, mode |-> e.mode, stage |-> 0]}
          : i \in 1..Len(t) }

\* the entry of a set of stage-0 entries at a path: Option
EntryAt(entries, path) ==
    LET hit == {e \in entries : e.path = path}
    IN  IF hit = {} THEN None ELSE Some(CHOOSE e \in hit : TRUE)

\* Repository::merge_trees: the three-way merge of two trees against their
\* ancestor, path by path: a side that left the path as the ancestor has it
\* yields to the other side; two sides that changed it differently conflict.
\* The result is the merged index: [entries, conflicts].
merge_trees(ancestor_tree, our_tree, their_tree) ==
    LET A     == read_tree(ancestor_tree, <<>>)
        O     == read_tree(our_tree, <<>>)
        T     == read_tree(their_tree, <<>>)
        paths == {e.path : e \in A \cup O \cup T}
        Pick(p) ==
            LET a == EntryAt(A, p)
                o == EntryAt(O, p)
                t == EntryAt(T, p)
            IN  IF o = t THEN [conflict |-> FALSE, entry |-> o]
                ELSE IF o = a THEN [conflict |-> FALSE, entry |-> t]
                ELSE IF t = a THEN [conflict |-> FALSE, entry |-> o]
                ELSE [conflict |-> TRUE, path |-> p, ancestor |-> a, our |-> o, their |-> t]
    IN  [entries   |-> {Pick(p).entry[1] : p \in {q \in paths : ~Pick(q).conflict
                                                                /\ IsSome(Pick(q).entry)}},
         conflicts |-> {Pick(p) : p \in {q \in paths : Pick(q).conflict}}]

\* Index::has_conflicts
has_conflicts(index) == index.conflicts # {}

\* Index::write_tree_to: the tree of the stage-0 entries below `prefix`
RECURSIVE write_tree_to(_, _, _)
write_tree_to(entries, prefix, names) ==
    IF names = <<>> THEN <<>>
    ELSE LET name  == Head(names)
             path  == prefix \o name
             hit   == EntryAt(entries, path)
             below == {e \in entries : StartsWith(e.path, path \o <<"/">>)}
             item  == IF IsSome(hit) THEN
                          <<[name |-> name,
                             kind |-> IF hit[1].mode = "160000" THEN "commit" ELSE "blob",
                             blob |-> hit[1].blob, mode |-> hit[1].mode,
                             sub |-> <<>>, loadable |-> TRUE]>>
                      ELSE IF below # {} THEN
                          <<[name |-> name, kind |-> "tree", blob |-> 0, mode |-> "040000",
                             sub |-> write_tree_to(below, path \o <<"/">>, NameOrder),
                             loadable |-> TRUE]>>
                      ELSE <<>>
         IN  item \o write_tree_to(entries, prefix, Tail(names))

\* the content of a file of the working area checked out from a blob
Checkout(blob) == [conflict |-> FALSE, ours |-> {blob}, theirs |-> {blob}]

\* the paths of a set of entries or files
PathsOf(entries) == {e.path : e \in entries}

\* Repository::checkout_tree with CheckoutBuilder::force: every file of the
\* tree is written, every file of the baseline (the HEAD tree) that the tree
\* lacks is removed, untracked files stay
checkout_tree(target, baseline, workdir) ==
    LET want == read_tree(target, <<>>)
        had  == read_tree(baseline, <<>>)
    IN  {[path |-> e.path, content |-> Checkout(e.blob)] : e \in want}
        \cup {f \in workdir : f.path \notin PathsOf(want) \cup PathsOf(had)}

\* the content checkout_index writes for a conflicted path under
\* conflict_style_merge: the two sides between conflict markers
ConflictMarkers(our, their) == [conflict |-> TRUE, ours |-> our, theirs |-> their]

\* Repository::checkout_index with allow_conflicts and conflict_style_merge
checkout_index(index, workdir) ==
    LET sides(p, stage) == {e.blob : e \in {x \in index : x.path = p /\ x.stage = stage}}
        conflicted == {e.path : e \in {x \in index : x.stage # 0}}
    IN  {[path |-> e.path, content |-> Checkout(e.blob)] :
            e \in {x \in index : x.stage = 0 /\ x.path \notin conflicted}}
        \cup {[path |-> p, content |-> ConflictMarkers(sides(p, 2), sides(p, 3))] :
                p \in conflicted}
        \cup {f \in workdir : f.path \notin PathsOf(index)}

\* MERGE_HEAD left as it is
set_merge_head_skipped(r, oid) == r

\* set_merge_head: MERGE_HEAD holds the id of the vendor commit
set_merge_head(r, oid) == [r EXCEPT !.merge_head = Some(oid)]

\* set_merge_msg: format!("{msg}\n")
set_merge_msg(r, msg) == [r EXCEPT !.merge_msg = Some(msg \o <<LF>>)]

\* Repository::find_reference: Option<[name, target]>
find_reference(r, ref_name) ==
    LET hit == {x \in r.refs : x.name = ref_name}
    IN  IF hit = {} THEN None ELSE Some(CHOOSE x \in hit : TRUE)

\* the commit written without moving HEAD to it
commit_detached(r, message, tree_of_commit, parents) ==
    [r EXCEPT !.commits = @ \cup {[tree |-> tree_of_commit, parents |-> parents,
                                    message |-> message]}]

\* Repository::commit(Some("HEAD"), ...): the commit is written and HEAD moves to it
commit(r, message, tree_of_commit, parents) ==
    LET c == [tree |-> tree_of_commit, parents |-> parents, message |-> message]
    IN  [r EXCEPT !.commits = @ \cup {c}, !.head = Some(c)]

-----------------------------------------------------------------------------
(* Bounds and input domains                                                *)

\* manifest operations that may add a line run while the manifest has fewer lines
MaxLines == 2
\* set_attr calls per behaviour of SpecSetAttr
MaxCalls == 2
\* nesting depth of the trees handed to the filter
MaxDepth == 2

PAT_STAR  == <<"*">>
PAT_DIR   == <<"d", "/", "*">>
\* a pattern for a directory name with a space in it
PAT_SPACE == <<"a", SP, "b">>
Patterns  == {PAT_STAR, PAT_DIR, PAT_SPACE}

URL_HTTPS == <<"https", ":", "/", "/", "e", "/", "o", "/", "r", ".", "git">>
URL_SCP   == <<"git", "@", "e", ":", "o", "/", "r">>
URL_LOCAL == <<"/", "l", "/", "r">>
Urls      == {URL_HTTPS, URL_SCP, URL_LOCAL}

NAME_OR   == <<"o", "/", "r">>
NAME_N    == <<"n">>
Names     == {None, Some(NAME_N)}
Branches  == {None, Some(<<"m">>)}

\* manifest lines a user may have written
L_COMMENT == <<"#", " ", "c">>
L_TEXT    == PAT_STAR \o <<SP, "text">>
L_VENDOR_STAR == PAT_STAR \o <<SP>> \o VENDORED \o <<SP>> \o VENDOR_NAME \o NAME_N
                 \o <<SP>> \o VENDOR_URL \o URL_LOCAL
L_VENDOR_DIR  == PAT_DIR \o <<SP>> \o VENDORED \o <<SP>> \o VENDOR_NAME \o NAME_OR
                 \o <<SP>> \o VENDOR_URL \o URL_SCP \o <<SP>> \o VENDOR_BRANCH \o <<"m">>
\* a dependency whose url nothing answers at
NAME_X        == <<"x">>
L_VENDOR_X    == PAT_STAR \o <<SP>> \o VENDORED \o <<SP>> \o VENDOR_NAME \o NAME_X
                 \o <<SP>> \o VENDOR_URL \o URL_HTTPS

\* a line with the marker and a url but no name
L_NO_NAME     == PAT_DIR \o <<SP>> \o VENDORED \o <<SP>> \o VENDOR_URL \o URL_LOCAL

File(content) == [exists |-> TRUE, content |-> content]

\* the manifests a behaviour may start from: none, empty, comment and blank
\* lines, one dependency, a line that lacks the name, two dependencies
InitFiles ==
    { NoFile,
      File(<<>>),
      File(L_COMMENT \o <<LF, LF>> \o L_TEXT \o <<LF>>),
      File(L_TEXT \o <<LF>>),
      File(L_VENDOR_DIR \o <<LF>>),
      File(L_NO_NAME \o <<LF>>),
      File(L_VENDOR_STAR \o <<LF>> \o L_TEXT \o <<LF>> \o L_VENDOR_DIR \o <<LF>>
           \o L_COMMENT \o <<LF>>) }

\* the repository of the behaviours that make no fetch and no merge
NoRepo == [head |-> None, commits |-> {}, refs |-> {}, index |-> {}, workdir |-> {},
           merge_head |-> None, merge_msg |-> None]

\* no vendor_status, vendor_fetch or vendor_merge call made yet
NoCall == [op |-> "none", pattern |-> None,
           opts |-> [no_commit |-> FALSE, squash |-> FALSE, message |-> None],
           before |-> NoRepo, ok |-> TRUE, err |-> "", read |-> FALSE]

NoOp == [op |-> "none", pattern |-> <<>>, attrs |-> <<>>, url |-> <<>>,
         branch |-> None, name |-> None, before |-> NoFile, ok |-> TRUE, err |-> "",
         read |-> FALSE]

-----------------------------------------------------------------------------
(* The vendor registry as a state machine: track_pattern and               *)
(* untrack_pattern calls on the manifest                                   *)

Init ==
    /\ bare \in BOOLEAN
    /\ file \in (IF bare THEN {NoFile} ELSE InitFiles)
    /\ last = NoOp
    /\ calls = 0
    /\ tree = <<>>
    /\ patterns = <<>>
    /\ once = None
    /\ twice = None
    /\ repo = NoRepo
    /\ mlast = NoCall

TrackPattern ==
    /\ Len(ReadFile(file)) < MaxLines
    /\ \E pattern \in Patterns, url \in Urls, maybe_branch \in Branches, maybe_name \in Names :
          \E r \in {track_pattern(bare, pattern, url, maybe_branch, maybe_name, file)} :
              /\ file' = r.file
              /\ last' = [op |-> "track_pattern", pattern |-> pattern, attrs |-> <<>>,
                          url |-> url, branch |-> maybe_branch, name |-> maybe_name,
                          before |-> file, ok |-> r.ok, err |-> r.err, read |-> r.read]
    /\ UNCHANGED <<bare, calls, tree, patterns, once, twice, repo, mlast>>

UntrackPattern ==
    /\ \E pattern \in Patterns :
          \E r \in {untrack_pattern(bare, pattern, file)} :
              /\ file' = r.file
              /\ last' = [op |-> "untrack_pattern", pattern |-> pattern, attrs |-> <<>>,
                          url |-> <<>>, branch |-> None, name |-> None,
                          before |-> file, ok |-> r.ok, err |-> r.err, read |-> r.read]
    /\ UNCHANGED <<bare, calls, tree, patterns, once, twice, repo, mlast>>

Next == TrackPattern \/ UntrackPattern

Spec == Init /\ [][Next]_vars

-----------------------------------------------------------------------------
(* set_attr as a state machine: calls with arbitrary attribute lists, and  *)
(* the repetition of the last call                                         *)

TOK_A       == <<"a">>
TOK_A_TRUE  == <<"a", "=", "true">>
TOK_NOT_A   == <<"-", "a">>
TOK_A_FALSE == <<"a", "=", "false">>
TOK_BANG_A  == <<"!", "a">>
TOK_A_V     == <<"a", "=", "v">>
TOK_A_PAD   == <<SP, "a", SP>>
TOK_B       == <<"b">>
TOK_TEXT    == <<"text">>
TOK_A_V_W   == <<"a", "=", "v", SP, "w">>

\* the attribute lists handed to set_attr
AttrLists ==
    { <<>>, <<TOK_A>>, <<TOK_A_TRUE>>, <<TOK_NOT_A>>, <<TOK_A_FALSE>>, <<TOK_BANG_A>>,
      <<TOK_A_V>>, <<TOK_A_PAD>>, <<TOK_TEXT>>, <<TOK_A_V_W>>,
      \* blank tokens
      << <<>> >>, << <<SP>> >>, << <<>>, TOK_A >>,
      \* tokens validate_attributes turns down
      << <<"-">> >>, << <<"!">> >>, << <<"=", "v">> >>, << <<"a", SP, "b">> >>,
      << <<"-", "a", SP, "b">> >>, << <<"a", SP, "b", "=", "v">> >>, <<TOK_A, <<"-">> >>,
      \* two entries
      <<TOK_A, TOK_NOT_A>>, <<TOK_A, TOK_B>>, <<TOK_B, TOK_A>>, <<TOK_A, TOK_A>>,
      <<TOK_TEXT, TOK_A>> }

L_A_DIR == PAT_DIR \o <<SP>> \o TOK_A

InitFilesSetAttr ==
    { NoFile,
      File(<<>>),
      File(L_TEXT),
      File(L_TEXT \o <<CR, LF>>),
      File(L_COMMENT \o <<LF, LF>> \o L_TEXT \o <<LF>>),
      File(PAT_STAR \o <<SP>> \o TOK_A \o <<LF>> \o PAT_STAR \o <<SP>> \o TOK_NOT_A \o <<LF>>),
      File(L_A_DIR \o <<LF>>) }

InitSetAttr ==
    /\ bare = FALSE
    /\ file \in InitFilesSetAttr
    /\ last = NoOp
    /\ calls = 0
    /\ tree = <<>>
    /\ patterns = <<>>
    /\ once = None
    /\ twice = None
    /\ repo = NoRepo
    /\ mlast = NoCall

SetAttr ==
    /\ calls < MaxCalls
    /\ \E pattern \in Patterns, attributes \in AttrLists :
          LET r == set_attr(pattern, attributes, file)
          IN  /\ file' = r.file
              /\ last' = [op |-> "set_attr", pattern |-> pattern, attrs |-> attributes,
                          url |-> <<>>, branch |-> None, name |-> None,
                          before |-> file, ok |-> r.ok,
                          err |-> IF r.ok THEN "" ELSE ERR_SET_ATTR, read |-> r.ok]
    /\ calls' = calls + 1
    /\ UNCHANGED <<bare, tree, patterns, once, twice, repo, mlast>>

NextSetAttr == SetAttr

SpecSetAttr == InitSetAttr /\ [][NextSetAttr]_vars

-----------------------------------------------------------------------------
(* The tree filter as a state machine: filter a tree, then filter the      *)
(* result again with the same patterns                                     *)

Entry(name, kind, blob, mode, sub, loadable) ==
    [name |-> name, kind |-> kind, blob |-> blob, mode |-> mode,
     sub |-> sub, loadable |-> loadable]

\* what a tree may hold under the name "a": nothing, a blob, an executable
\* blob, a submodule (an entry of kind commit)
OptionsA ==
    { <<>>,
      <<Entry(<<"a">>, "blob", 1, "100644", <<>>, TRUE)>>,
      <<Entry(<<"a">>, "blob", 1, "100755", <<>>, TRUE)>>,
      <<Entry(<<"a">>, "commit", 2, "160000", <<>>, TRUE)>> }

OptionsB ==
    { <<>>, <<Entry(<<"b">>, "blob", 1, "100644", <<>>, TRUE)>> }

\* the trees of nesting depth at most d; "d" is a subtree, possibly unreadable
RECURSIVE TreesOfDepth(_)
TreesOfDepth(d) ==
    LET OptionsD ==
            IF d = 0 THEN {<<>>}
            ELSE {<<>>, <<Entry(<<"d">>, "tree", 0, "040000", <<>>, FALSE)>>}
                 \cup {<<Entry(<<"d">>, "tree", 0, "040000", sub, TRUE)>> :
                         sub \in TreesOfDepth(d - 1)}
    IN  {a \o b \o dd : a \in OptionsA, b \in OptionsB, dd \in OptionsD}

Trees == TreesOfDepth(MaxDepth)

PatternLists ==
    { <<>>,
      << <<"*">> >>, << <<"a">> >>, << <<"?">> >>, << <<"*", "a">> >>,
      << <<"d", "/", "*">> >>, << <<"d", "/", "d", "/", "?">> >>,
      << <<"[", "a">> >>,
      << <<"b">>, <<"d", "/", "a">> >> }

InitFilter ==
    /\ bare = FALSE
    /\ file = NoFile
    /\ last = NoOp
    /\ calls = 0
    /\ tree \in Trees
    /\ patterns \in PatternLists
    /\ once = None
    /\ twice = None
    /\ repo = NoRepo
    /\ mlast = NoCall

FilterOnce ==
    /\ once = None
    /\ once' = Some(filter_by_patterns(tree, patterns))
    /\ UNCHANGED <<bare, file, last, calls, tree, patterns, twice, repo, mlast>>

FilterTwice ==
    /\ IsSome(once)
    /\ once[1].ok
    /\ twice = None
    /\ twice' = Some(filter_by_patterns(once[1].tree, patterns))
    /\ UNCHANGED <<bare, file, last, calls, tree, patterns, once, repo, mlast>>

NextFilter == FilterOnce \/ FilterTwice

SpecFilter == InitFilter /\ [][NextFilter]_vars

-----------------------------------------------------------------------------
(* vendor_status, vendor_fetch and vendor_merge                            *)

\* MERGE_HEAD recorded under --squash too
records_merge_head_always(opts) == TRUE

\* if !opts.squash
records_merge_head(opts) == ~opts.squash

\* lines 261-325 of vendor_merge: what is done with the index merge_trees
\* returned for one dependency: [ok, err, repo]
apply_merge(r, dep, opts, vendor_commit, head_commit, index) ==
    LET head_tree   == head_commit.tree
        message     == IF IsSome(opts.message) THEN opts.message[1]
                       ELSE default_message(dep.name)
        skip_commit == opts.no_commit \/ opts.squash
    IN  IF has_conflicts(index) THEN
            LET our_their  == UNION { (IF IsSome(c.our)
                                       THEN {[c.our[1] EXCEPT !.stage = 2]} ELSE {})
                                      \cup (IF IsSome(c.their)
                                            THEN {[c.their[1] EXCEPT !.stage = 3]} ELSE {})
                                    : c \in index.conflicts }
                repo_index == read_tree(head_tree, <<>>) \cup our_their
                r1 == [r EXCEPT !.index = repo_index,
                                !.workdir = checkout_index(repo_index, r.workdir)]
                r2 == IF records_merge_head(opts) THEN set_merge_head(r1, vendor_commit)
                      ELSE r1
                r3 == set_merge_msg(r2, message)
            IN  [ok |-> FALSE, err |-> ERR_CONFLICT, repo |-> r3]
        ELSE
            LET merged_tree == write_tree_to(index.entries, <<>>, NameOrder)
                r1 == [r EXCEPT !.index = read_tree(merged_tree, <<>>),
                                !.workdir = checkout_tree(merged_tree, head_tree, r.workdir)]
            IN  IF skip_commit THEN
                    LET r2 == IF records_merge_head(opts)
                              THEN set_merge_head(r1, vendor_commit) ELSE r1
                    IN  [ok |-> TRUE, err |-> "", repo |-> set_merge_msg(r2, message)]
                ELSE [ok |-> TRUE, err |-> "",
                      repo |-> commit(r1, message, merged_tree,
                                      <<head_commit, vendor_commit>>)]

\* the body of the loop of vendor_merge for one dependency: [ok, err, repo]
merge_dep(r, dep, opts) ==
    LET reference == find_reference(r, vendor_ref_name(dep.name))
    IN  IF ~IsSome(reference) THEN [ok |-> FALSE, err |-> ERR_REF_NOT_FOUND, repo |-> r]
        ELSE LET vendor_commit == reference[1].target
                 filtered      == filter_by_patterns(vendor_commit.tree, <<dep.pattern>>)
             IN  IF ~filtered.ok THEN [ok |-> FALSE, err |-> filtered.err, repo |-> r]
                 ELSE IF ~IsSome(r.head) THEN [ok |-> FALSE, err |-> ERR_HEAD, repo |-> r]
                 ELSE LET head_commit == r.head[1]
                          head_tree   == head_commit.tree
                      IN  apply_merge(r, dep, opts, vendor_commit, head_commit,
                                      merge_trees(head_tree, head_tree, filtered.tree))

\* a loop that goes on with the next dependency after one has failed
RECURSIVE MergeLoopContinuing(_, _, _)
MergeLoopContinuing(deps, r, opts) ==
    IF deps = <<>> THEN [ok |-> TRUE, err |-> "", repo |-> r]
    ELSE LET step == merge_dep(r, Head(deps), opts)
             rest == MergeLoopContinuing(Tail(deps), step.repo, opts)
         IN  IF step.ok THEN rest ELSE [rest EXCEPT !.ok = FALSE, !.err = step.err]

\* the loop of vendor_merge: it stops at the first dependency that fails
RECURSIVE MergeLoop(_, _, _)
MergeLoop(deps, r, opts) ==
    IF deps = <<>> THEN [ok |-> TRUE, err |-> "", repo |-> r]
    ELSE LET step == merge_dep(r, Head(deps), opts)
         IN  IF ~step.ok THEN step ELSE MergeLoop(Tail(deps), step.repo, opts)

\* the test for several dependencies under --no-commit or --squash left out
TooManyDepsSkipped(deps, opts) == FALSE

\* skip_commit && deps.len() > 1
TooManyDeps(deps, opts) == (opts.no_commit \/ opts.squash) /\ Len(deps) > 1

\* Vendor::vendor_merge: [ok, err, repo, read]; `read` tells whether the
\* manifest was read
vendor_merge(is_bare, f, r, maybe_pattern, opts) ==
    IF ~require_non_bare(is_bare) THEN
        [ok |-> FALSE, err |-> ERR_BARE, repo |-> r, read |-> FALSE]
    ELSE LET deps == filter_deps(parse_vendor_deps(f), maybe_pattern)
         IN  IF deps = <<>> THEN
                 [ok |-> FALSE, err |-> ERR_NO_DEPS_MERGE, repo |-> r, read |-> TRUE]
             ELSE IF TooManyDeps(deps, opts) THEN
                 [ok |-> FALSE, err |-> ERR_SINGLE_DEP, repo |-> r, read |-> TRUE]
             ELSE LET res == MergeLoop(deps, r, opts)
                  IN  [ok |-> res.ok, err |-> res.err, repo |-> res.repo, read |-> TRUE]

\* the trees the upstream repositories hold
VT_LOCAL == << Entry(<<"a">>, "blob", 1, "100644", <<>>, TRUE),
               Entry(<<"d">>, "tree", 0, "040000",
                     << Entry(<<"a">>, "blob", 1, "100644", <<>>, TRUE) >>, TRUE) >>
VT_SCP   == << Entry(<<"a">>, "commit", 3, "160000", <<>>, TRUE),
               Entry(<<"b">>, "blob", 2, "100644", <<>>, TRUE),
               Entry(<<"d">>, "tree", 0, "040000",
                     << Entry(<<"a">>, "blob", 2, "100755", <<>>, TRUE),
                        Entry(<<"b">>, "blob", 2, "100644", <<>>, TRUE) >>, TRUE) >>

\* what the transport finds at a url for `HEAD` or for a branch: the commit,
\* or None when nothing answers at the url
RemoteCommit(url, maybe_branch) ==
    LET at == IF IsSome(maybe_branch) THEN maybe_branch[1] ELSE <<"HEAD">>
    IN  IF url = URL_LOCAL THEN
            Some([tree |-> VT_LOCAL, parents |-> <<>>, message |-> <<"upstream ">> \o at])
        ELSE IF url = URL_SCP THEN
            Some([tree |-> VT_SCP, parents |-> <<>>, message |-> <<"upstream ">> \o at])
        ELSE None

\* a fetch that also moves HEAD to the commit it fetched
fetch_dep_moving_head(r, dep) ==
    LET ref_target == vendor_ref_name(dep.name)
        found      == RemoteCommit(dep.url, dep.branch)
    IN  IF ~IsSome(found) THEN [ok |-> FALSE, err |-> ERR_FETCH, repo |-> r]
        ELSE [ok |-> TRUE, err |-> "",
              repo |-> [r EXCEPT !.commits = @ \cup {found[1]},
                                 !.head = found,
                                 !.refs = {x \in @ : x.name # ref_target}
                                          \cup {[name |-> ref_target, target |-> found[1]]}]]

\* remote_anonymous(url) and remote.fetch with the refspec `+<src>:<ref_target>`:
\* the commit is stored and the ref is forced to it
fetch_dep(r, dep) ==
    LET ref_target == vendor_ref_name(dep.name)
        found      == RemoteCommit(dep.url, dep.branch)
    IN  IF ~IsSome(found) THEN [ok |-> FALSE, err |-> ERR_FETCH, repo |-> r]
        ELSE [ok |-> TRUE, err |-> "",
              repo |-> [r EXCEPT !.commits = @ \cup {found[1]},
                                 !.refs = {x \in @ : x.name # ref_target}
                                          \cup {[name |-> ref_target, target |-> found[1]]}]]

\* the loop of vendor_fetch
RECURSIVE FetchLoop(_, _)
FetchLoop(deps, r) ==
    IF deps = <<>> THEN [ok |-> TRUE, err |-> "", repo |-> r]
    ELSE LET step == fetch_dep(r, Head(deps))
         IN  IF ~step.ok THEN step ELSE FetchLoop(Tail(deps), step.repo)

\* Vendor::vendor_fetch: [ok, err, repo, read]
vendor_fetch(is_bare, f, r, maybe_pattern) ==
    IF ~require_non_bare(is_bare) THEN
        [ok |-> FALSE, err |-> ERR_BARE, repo |-> r, read |-> FALSE]
    ELSE LET deps == filter_deps(parse_vendor_deps(f), maybe_pattern)
         IN  IF deps = <<>> THEN
                 [ok |-> FALSE, err |-> ERR_NO_DEPS_FETCH, repo |-> r, read |-> TRUE]
             ELSE LET res == FetchLoop(deps, r)
                  IN  [ok |-> res.ok, err |-> res.err, repo |-> res.repo, read |-> TRUE]

\* Vendor::vendor_status: [ok, err, repo, read]; it only prints
vendor_status(is_bare, f, r, maybe_pattern) ==
    IF ~require_non_bare(is_bare) THEN
        [ok |-> FALSE, err |-> ERR_BARE, repo |-> r, read |-> FALSE]
    ELSE [ok |-> TRUE, err |-> "", repo |-> r, read |-> TRUE]

-----------------------------------------------------------------------------
(* Fetch and merge as a state machine, on a repository with a working area *)

\* vendor_merge calls per behaviour
MaxMergeCalls == 2

\* the tree of the commit HEAD starts at: a file of the project and a file
\* below d/ that was edited locally
HEAD_TREE == << Entry(<<"b">>, "blob", 7, "100644", <<>>, TRUE),
                Entry(<<"d">>, "tree", 0, "040000",
                      << Entry(<<"a">>, "blob", 7, "100644", <<>>, TRUE) >>, TRUE) >>

HEAD_COMMIT == [tree |-> HEAD_TREE, parents |-> <<>>, message |-> <<"initial">>]

\* the files of the working area that match a tree
WorkdirOf(t) == {[path |-> e.path, content |-> Checkout(e.blob)] : e \in read_tree(t, <<>>)}

\* a repository whose HEAD is `head`, with no vendor ref, index and working
\* area clean, and no merge in progress
RepoAt(head) ==
    [head |-> head,
     commits |-> IF IsSome(head) THEN {head[1]} ELSE {},
     refs |-> {},
     index |-> IF IsSome(head) THEN read_tree(head[1].tree, <<>>) ELSE {},
     workdir |-> IF IsSome(head) THEN WorkdirOf(head[1].tree) ELSE {},
     merge_head |-> None, merge_msg |-> None]

\* the repositories a behaviour may start from: one commit, or an unborn branch
InitRepos == {RepoAt(Some(HEAD_COMMIT)), RepoAt(None)}

\* the manifests a behaviour may start from: none, one dependency, two
\* dependencies, three dependencies of which the second cannot be fetched
MergeFiles ==
    { NoFile,
      File(L_VENDOR_DIR \o <<LF>>),
      File(L_VENDOR_STAR \o <<LF>> \o L_TEXT \o <<LF>> \o L_VENDOR_DIR \o <<LF>>
           \o L_COMMENT \o <<LF>>),
      File(L_VENDOR_STAR \o <<LF>> \o L_VENDOR_X \o <<LF>> \o L_VENDOR_DIR \o <<LF>>) }

MaybePatterns == {None, Some(PAT_STAR), Some(PAT_DIR)}
Messages      == {None, Some(<<"msg">>)}
MergeOpts     == {VendorMergeOpts(no_commit, squash, message) :
                     no_commit \in BOOLEAN, squash \in BOOLEAN, message \in Messages}

InitMerge ==
    /\ bare = FALSE
    /\ file \in MergeFiles
    /\ last = NoOp
    /\ calls = 0
    /\ tree = <<>>
    /\ patterns = <<>>
    /\ once = None
    /\ twice = None
    /\ repo \in InitRepos
    /\ mlast = NoCall

VendorStatus ==
    /\ \E maybe_pattern \in MaybePatterns :
          \E r \in {vendor_status(bare, file, repo, maybe_pattern)} :
              /\ repo' = r.repo
              /\ mlast' = [op |-> "vendor_status", pattern |-> maybe_pattern,
                           opts |-> NoCall.opts, before |-> repo,
                           ok |-> r.ok, err |-> r.err, read |-> r.read]
    /\ UNCHANGED <<bare, file, last, calls, tree, patterns, once, twice>>

VendorFetch ==
    /\ \E maybe_pattern \in MaybePatterns :
          \E r \in {vendor_fetch(bare, file, repo, maybe_pattern)} :
              /\ repo' = r.repo
              /\ mlast' = [op |-> "vendor_fetch", pattern |-> maybe_pattern,
                           opts |-> NoCall.opts, before |-> repo,
                           ok |-> r.ok, err |-> r.err, read |-> r.read]
    /\ UNCHANGED <<bare, file, last, calls, tree, patterns, once, twice>>

VendorMerge ==
    /\ calls < MaxMergeCalls
    /\ \E maybe_pattern \in MaybePatterns, opts \in MergeOpts :
          \E r \in {vendor_merge(bare, file, repo, maybe_pattern, opts)} :
              /\ repo' = r.repo
              /\ mlast' = [op |-> "vendor_merge", pattern |-> maybe_pattern,
                           opts |-> opts, before |-> repo,
                           ok |-> r.ok, err |-> r.err, read |-> r.read]
    /\ calls' = calls + 1
    /\ UNCHANGED <<bare, file, last, tree, patterns, once, twice>>

NextMerge == VendorStatus \/ VendorFetch \/ VendorMerge

SpecMerge == InitMerge /\ [][NextMerge]_vars

-----------------------------------------------------------------------------
(* The five operations of the Vendor trait on a bare repository            *)

\* a bare repository: commits and vendor refs, no index, no working area
BareRepos ==
    { [RepoAt(Some(HEAD_COMMIT)) EXCEPT !.index = {}, !.workdir = {}],
      [RepoAt(Some(HEAD_COMMIT)) EXCEPT
          !.index = {}, !.workdir = {},
          !.commits = @ \cup {RemoteCommit(URL_SCP, Some(<<"m">>))[1]},
          !.refs = {[name |-> vendor_ref_name(NAME_OR),
                     target |-> RemoteCommit(URL_SCP, Some(<<"m">>))[1]]}] }

\* the .gitattributes of the current directory, if there is one
InitBare ==
    /\ bare = TRUE
    /\ file \in {NoFile, File(L_VENDOR_DIR \o <<LF>>)}
    /\ last = NoOp
    /\ calls = 0
    /\ tree = <<>>
    /\ patterns = <<>>
    /\ once = None
    /\ twice = None
    /\ repo \in BareRepos
    /\ mlast = NoCall

NextBare == TrackPattern \/ UntrackPattern \/ VendorStatus \/ VendorFetch \/ VendorMerge

SpecBare == InitBare /\ [][NextBare]_vars

-----------------------------------------------------------------------------
(* Properties of set_attr (checked under SpecSetAttr)                      *)

SetAttrDone == last.op = "set_attr" /\ last.ok

\* a line that is neither blank nor a comment and whose first token is `pattern`
IsLineFor(line, pattern) ==
    LET trimmed == Trim(line)
    IN  /\ trimmed # <<>>
        /\ trimmed[1] # "#"
        /\ SplitWhitespace(trimmed)[1] = pattern

\* some line of the manifest for `pattern` holds an entry with the name and state of `attr`
PresentOnSomeLine(attr, pattern, lines) ==
    \E i \in 1..Len(lines) :
        /\ IsLineFor(lines[i], pattern)
        /\ LET parts == SplitWhitespace(lines[i])
           IN  \E k \in 2..Len(parts) :
                   parse_attribute_string(parts[k]) = parse_attribute_string(attr)

\* C1: set_attr is idempotent: after a successful set_attr, a second call with
\* the same pattern and attributes leaves the manifest exactly as it is.
C1_SetAttrIdempotent ==
    SetAttrDone => set_attr(last.pattern, last.attrs, file).file = file

\* C2: when every requested entry is already semantically present for the
\* pattern, or the attribute list is empty, a successful set_attr leaves the
\* content of the manifest unchanged.
C2_RedundantRequestKeepsContent ==
    ( /\ SetAttrDone
      /\ \A i \in 1..Len(last.attrs) :
            \/ Trim(last.attrs[i]) = <<>>
            \/ PresentOnSomeLine(last.attrs[i], last.pattern, ReadFile(last.before)) )
    => file.content = last.before.content

\* the strings of `parts` joined with one space
RECURSIVE JoinSpace(_)
JoinSpace(parts) ==
    IF Len(parts) = 1 THEN parts[1]
    ELSE parts[1] \o <<SP>> \o JoinSpace(Tail(parts))

\* C3: a successful set_attr keeps every line the manifest had, verbatim and in
\* order, and adds at most one line, after all of them: the pattern followed
\* by the new entries in the order they were passed.
C3_KeepsLinesAppendsOne ==
    SetAttrDone =>
        LET old   == ReadFile(last.before)
            fresh == filter_new_attributes(last.pattern, last.attrs, old)
        IN  /\ file.exists
            /\ ReadFile(file) = IF fresh = <<>> THEN old
                                ELSE Append(old, JoinSpace(<<last.pattern>> \o fresh))
            /\ \A i \in 1..Len(fresh) :
                   \E k \in 1..Len(last.attrs) : fresh[i] = Trim(last.attrs[k])

\* C3 witness: a manifest with a comment, a blank line and an entry got one
\* more line that holds only the entry that was new
C3_Witness ==
    /\ SetAttrDone
    /\ last.before = File(L_COMMENT \o <<LF, LF>> \o L_TEXT \o <<LF>>)
    /\ last.pattern = PAT_STAR
    /\ last.attrs = <<TOK_TEXT, TOK_A>>
    /\ ReadFile(file) = <<L_COMMENT, <<>>, L_TEXT, PAT_STAR \o <<SP>> \o TOK_A>>

\* a token that, once trimmed, is not empty and has an empty name or
\* whitespace inside its name
BadToken(attr) ==
    LET t    == Trim(attr)
        name == parse_attribute_string(t).name
    IN  t # <<>> /\ (name = <<>> \/ ContainsWhitespace(name))

\* C4: set_attr fails on validation exactly when some token is bad; blank
\* tokens are skipped; when it fails, the manifest is neither created nor
\* modified.
C4_ValidationRejectsExactlyBadTokens ==
    last.op = "set_attr" =>
        /\ last.ok = ~(\E i \in 1..Len(last.attrs) : BadToken(last.attrs[i]))
        /\ ~last.ok => file = last.before

\* C4 witness: a call with a bad token failed on a manifest that did not exist
C4_Witness ==
    /\ last.op = "set_attr"
    /\ ~last.ok
    /\ last.attrs = <<TOK_A, <<"-">> >>
    /\ last.before = NoFile
    /\ file = NoFile

-----------------------------------------------------------------------------
(* Properties of the vendor registry (checked under Spec)                  *)

TrackDone   == last.op = "track_pattern" /\ last.ok
UntrackDone == last.op = "untrack_pattern" /\ last.ok

\* the members of a sequence
Range(seq) == {seq[i] : i \in 1..Len(seq)}

\* the owner/repo a reader finds in each url of the model (a local path has none)
OwnerRepo(url) == IF url = URL_LOCAL THEN None ELSE Some(NAME_OR)

\* the line track_pattern is to write for a pattern the manifest does not mention
VendorLine(pattern, url, maybe_branch, maybe_name) ==
    LET name == IF IsSome(maybe_name) THEN maybe_name[1] ELSE OwnerRepo(url)[1]
    IN  pattern \o <<SP>> \o VENDORED
        \o <<SP>> \o VENDOR_NAME \o name
        \o <<SP>> \o VENDOR_URL \o url
        \o (IF IsSome(maybe_branch) THEN <<SP>> \o VENDOR_BRANCH \o maybe_branch[1] ELSE <<>>)

HasLineFor(lines, pattern) == \E i \in 1..Len(lines) : IsLineFor(lines[i], pattern)

\* C5: on a manifest with no line for P, a successful track_pattern appends
\* exactly one line: P, `vendored`, `vendor-name=<name>`, `vendor-url=<url>`
\* and `vendor-branch=<branch>` iff a branch was given; the name is the
\* explicit name when given, else the owner/repo of the url.
C5_TrackAppendsVendorLine ==
    (TrackDone /\ ~HasLineFor(ReadFile(last.before), last.pattern)) =>
        ReadFile(file) = Append(ReadFile(last.before),
                                VendorLine(last.pattern, last.url, last.branch, last.name))

\* C5 witness: the empty manifest, a url that yields o/r, no branch, no name
C5_Witness ==
    /\ TrackDone
    /\ last.before = File(<<>>)
    /\ last.pattern = PAT_DIR /\ last.url = URL_HTTPS
    /\ last.branch = None /\ last.name = None
    /\ ReadFile(file) = << PAT_DIR \o <<SP>> \o VENDORED \o <<SP>> \o VENDOR_NAME \o NAME_OR
                           \o <<SP>> \o VENDOR_URL \o URL_HTTPS >>

\* C6: after a successful track_pattern(P, url, branch, name) on a manifest
\* that already tracks P with another url or branch, the dependency
\* parse_vendor_deps reports for P carries the url and branch just given.
C6_TrackUpdatesUrlAndBranch ==
    ( /\ TrackDone
      /\ \E d \in Range(parse_vendor_deps(last.before)) :
            /\ d.pattern = last.pattern
            /\ (d.url # last.url \/ d.branch # last.branch) )
    => LET deps == {d \in Range(parse_vendor_deps(file)) : d.pattern = last.pattern}
       IN  /\ deps # {}
           /\ \A d \in deps : d.url = last.url /\ d.branch = last.branch

\* the vendor attributes, as is_vendor_line_for_pattern documents them
IsVendorAttr(attr) ==
    \/ attr = VENDORED
    \/ \E prefix \in {VENDOR_NAME, VENDOR_URL, VENDOR_BRANCH} : StartsWith(attr, prefix)

\* a line untrack_pattern(P) is to remove: a line for P with a vendor attribute
IsVendorLineFor(line, pattern) ==
    /\ IsLineFor(line, pattern)
    /\ \E attr \in Range(Tail(SplitWhitespace(line))) : IsVendorAttr(attr)

\* C7: untrack_pattern(P) removes exactly the lines whose first token is P,
\* as an exact string, and that carry a vendor attribute; every other line is
\* kept, in the original order.
C7_UntrackRemovesVendorLinesOfPattern ==
    UntrackDone =>
        ReadFile(file) = SelectSeq(ReadFile(last.before),
                                   LAMBDA line : ~IsVendorLineFor(line, last.pattern))

\* C7 witness: untrack_pattern("*") removed the vendor line of "*" and kept the
\* plain line of "*", the vendor line of "d/*" and the comment
C7_Witness ==
    /\ UntrackDone
    /\ last.pattern = PAT_STAR
    /\ ReadFile(last.before) = <<L_VENDOR_STAR, L_TEXT, L_VENDOR_DIR, L_COMMENT>>
    /\ ReadFile(file) = <<L_TEXT, L_VENDOR_DIR, L_COMMENT>>

\* C8: a line with `vendor-name=` and `vendor-url=` but without the `vendored`
\* marker is recognized as a vendor dependency by parse_vendor_deps.
C8_LegacyLineIsDependency ==
    \A line \in Range(ReadFile(file)) :
        LET parts == SplitWhitespace(line)
        IN  ( /\ Trim(line) # <<>>
              /\ Trim(line)[1] # "#"
              /\ \E k \in 2..Len(parts) : StartsWith(parts[k], VENDOR_NAME)
              /\ \E k \in 2..Len(parts) : StartsWith(parts[k], VENDOR_URL) )
            => \E d \in Range(parse_vendor_deps(file)) :
                   /\ d.pattern = parts[1]
                   /\ \E k \in 2..Len(parts) : parts[k] = VENDOR_NAME \o d.name
                   /\ \E k \in 2..Len(parts) : parts[k] = VENDOR_URL \o d.url

\* C9: after any sequence of track_pattern and untrack_pattern calls no two
\* dependencies parsed from the manifest share a name (and so a ref
\* refs/vendor/<name>).
C9_DependencyNamesUnique ==
    LET deps == parse_vendor_deps(file)
    IN  \A i, j \in 1..Len(deps) :
            i # j => vendor_ref_name(deps[i].name) # vendor_ref_name(deps[j].name)

-----------------------------------------------------------------------------
(* Properties of the tree filter (checked under SpecFilter)                *)

\* C10: filtering is idempotent: filtering the result of a successful
\* filter_by_patterns again, with the same patterns, succeeds and returns the
\* same tree (the same content id).
C10_FilterIdempotent ==
    IsSome(twice) => twice[1].ok /\ twice[1].tree = once[1].tree

\* C10 witness: the first pass dropped something and kept a subtree with a blob
C10_Witness ==
    /\ IsSome(twice)
    /\ once[1].tree # tree
    /\ \E i \in 1..Len(once[1].tree) :
          once[1].tree[i].kind = "tree" /\ Len(once[1].tree[i].sub) > 0

\* the blobs of a tree: full path from the root, content id and mode
RECURSIVE BlobsOf(_, _)
BlobsOf(t, prefix) ==
    UNION { LET e    == t[i]
                path == IF prefix = <<>> THEN e.name ELSE prefix \o <<"/">> \o e.name
            IN  IF e.kind = "blob" THEN {[path |-> path, blob |-> e.blob, mode |-> e.mode]}
                ELSE IF e.kind = "tree" THEN BlobsOf(e.sub, path)
                ELSE {}
          : i \in 1..Len(t) }

\* the directories of a tree: full path and mode
RECURSIVE DirsOf(_, _)
DirsOf(t, prefix) ==
    UNION { LET e    == t[i]
                path == IF prefix = <<>> THEN e.name ELSE prefix \o <<"/">> \o e.name
            IN  IF e.kind = "tree" THEN {[path |-> path, mode |-> e.mode]} \cup DirsOf(e.sub, path)
                ELSE {}
          : i \in 1..Len(t) }

\* the entries of a tree, at any depth, that are neither blobs nor directories
RECURSIVE OthersOf(_)
OthersOf(t) ==
    UNION { IF t[i].kind = "tree" THEN OthersOf(t[i].sub)
            ELSE IF t[i].kind = "blob" THEN {}
            ELSE {t[i]}
          : i \in 1..Len(t) }

\* every directory of the tree, at any depth, can be read from the store
RECURSIVE AllLoadable(_)
AllLoadable(t) ==
    \A i \in 1..Len(t) : t[i].kind = "tree" => t[i].loadable /\ AllLoadable(t[i].sub)

\* the blobs of the input whose full path matches at least one pattern
Retained(t, pats) ==
    {b \in BlobsOf(t, <<>>) : \E i \in 1..Len(pats) : GlobMatch(pats[i], b.path)}

ValidPatterns(pats) == pats # <<>> /\ \A i \in 1..Len(pats) : GlobNew(pats[i])

\* C11: on a tree whose directories the store can read, filter_by_patterns
\* with valid patterns returns the tree whose blobs are exactly the blobs of
\* the input whose full path matches at least one pattern, with their content
\* id and mode; its directories are exactly the input directories with a
\* retained blob below them; it holds no entry of another kind; when nothing
\* is retained it is the empty tree.
C11_FilterKeepsExactlyMatchingBlobs ==
    (IsSome(once) /\ ValidPatterns(patterns) /\ AllLoadable(tree)) =>
        LET kept == Retained(tree, patterns)
            out  == once[1].tree
        IN  /\ once[1].ok
            /\ BlobsOf(out, <<>>) = kept
            /\ DirsOf(out, <<>>) =
                   {d \in DirsOf(tree, <<>>) :
                       \E b \in kept : StartsWith(b.path, d.path \o <<"/">>)}
            /\ OthersOf(out) = {}
            /\ kept = {} => out = <<>>

\* C11 witness: two patterns; a blob two directories down is retained with
\* its directories, while a submodule and a blob of the root are dropped
C11_Witness ==
    /\ IsSome(once)
    /\ AllLoadable(tree)
    /\ patterns = << <<"b">>, <<"d", "/", "a">> >>
    /\ OthersOf(tree) # {}
    /\ \E b \in BlobsOf(tree, <<>>) : b.path = <<"d", "/", "d", "/", "a">>
    /\ \E b \in BlobsOf(tree, <<>>) : b.path = <<"d", "/", "a">> /\ b.mode = "100755"
    /\ \E b \in BlobsOf(tree, <<>>) : b.path = <<"b">>
    /\ {b.path : b \in BlobsOf(once[1].tree, <<>>)} = {<<"b">>, <<"d", "/", "a">>}

\* C12: filter_by_patterns with an empty pattern set fails with the error
\* "At least one pattern is required", whatever the tree, and writes no tree
\* object to the store.
C12_EmptyPatternSetFails ==
    (IsSome(once) /\ patterns = <<>>) =>
        /\ ~once[1].ok
        /\ once[1].err = ERR_NO_PATTERN
        /\ once[1].written = {}

\* C12 witness: the empty pattern set was turned down on a tree with a blob
\* and a directory
C12_Witness ==
    /\ IsSome(once)
    /\ patterns = <<>>
    /\ BlobsOf(tree, <<>>) # {}
    /\ DirsOf(tree, <<>>) # {}

-----------------------------------------------------------------------------
(* Properties of vendor_merge (checked under SpecMerge)                    *)

MergeCalled == mlast.op = "vendor_merge"
Immediate   == ~mlast.opts.no_commit /\ ~mlast.opts.squash

\* the dependencies the last call selected, in manifest order
Selected == filter_deps(parse_vendor_deps(file), mlast.pattern)

\* the message of the commit for a dependency
MessageFor(dep) ==
    IF IsSome(mlast.opts.message) THEN mlast.opts.message[1]
    ELSE <<"Merge vendored dependency: ">> \o dep.name

\* the commit a vendor ref pointed at when the call started
VendorCommitOf(dep) == find_reference(mlast.before, vendor_ref_name(dep.name))[1].target

\* the tree that merging the vendor content of `dep` into the tree of `head_commit` gives
MergedTree(head_commit, dep) ==
    write_tree_to(
        merge_trees(head_commit.tree, head_commit.tree,
                    filter_by_patterns(VendorCommitOf(dep).tree, <<dep.pattern>>).tree).entries,
        <<>>, NameOrder)

\* the commits on the first-parent line from `base` (excluded) to `c`, oldest first
RECURSIVE ChainFrom(_, _)
ChainFrom(c, base) ==
    IF c = base \/ c.parents = <<>> THEN <<>>
    ELSE Append(ChainFrom(c.parents[1], base), c)

\* C13: in immediate mode each dependency that merges cleanly gets exactly
\* one commit: its parents are, in order, the HEAD commit at that moment and
\* the vendor commit, its tree is the merged tree, its message is the
\* caller's or `Merge vendored dependency: <name>`, and HEAD moves to it.
C13_ImmediateMergeCommits ==
    (MergeCalled /\ Immediate /\ IsSome(mlast.before.head)) =>
        LET base  == mlast.before.head[1]
            chain == ChainFrom(repo.head[1], base)
            prev(i) == IF i = 1 THEN base ELSE chain[i - 1]
        IN  /\ repo.commits = mlast.before.commits \cup Range(chain)
            /\ Cardinality(repo.commits) = Cardinality(mlast.before.commits) + Len(chain)
            /\ Len(chain) <= Len(Selected)
            /\ mlast.ok => Len(chain) = Len(Selected)
            /\ \A i \in 1..Len(chain) :
                  /\ chain[i].parents = <<prev(i), VendorCommitOf(Selected[i])>>
                  /\ chain[i].tree = MergedTree(prev(i), Selected[i])
                  /\ chain[i].message = MessageFor(Selected[i])

\* C13 witness: two dependencies were merged by one call, with the default message
C13_Witness ==
    /\ MergeCalled /\ Immediate /\ mlast.ok
    /\ mlast.opts.message = None
    /\ Len(Selected) = 2
    /\ repo.head[1].parents[1].parents[1] = mlast.before.head[1]

\* C14: a clean merge under no_commit (without squash) creates no commit and
\* leaves HEAD where it was, makes the index and the working area hold the
\* merged tree, and records MERGE_HEAD (the vendor commit) and MERGE_MSG.
C14_NoCommitDefers ==
    (MergeCalled /\ mlast.ok /\ mlast.opts.no_commit /\ ~mlast.opts.squash) =>
        LET dep    == Selected[1]
            merged == MergedTree(mlast.before.head[1], dep)
        IN  /\ repo.commits = mlast.before.commits
            /\ repo.head = mlast.before.head
            /\ repo.index = read_tree(merged, <<>>)
            \* every file of the merged tree is checked out; what else is
            \* there was there before and is not a path of the HEAD tree
            /\ WorkdirOf(merged) \subseteq repo.workdir
            /\ \A f \in repo.workdir \ WorkdirOf(merged) :
                  /\ f \in mlast.before.workdir
                  /\ f.path \notin PathsOf(read_tree(mlast.before.head[1].tree, <<>>))
            /\ repo.merge_head = Some(VendorCommitOf(dep))
            /\ repo.merge_msg = Some(MessageFor(dep) \o <<LF>>)

\* C14 witness: a no_commit merge changed the index and the working area
C14_Witness ==
    /\ MergeCalled /\ mlast.ok /\ mlast.opts.no_commit /\ ~mlast.opts.squash
    /\ repo.index # mlast.before.index
    /\ repo.workdir # mlast.before.workdir
    /\ IsSome(repo.merge_head)

\* an index with conflicts, as merge_trees returns it when the two sides
\* added a path with different content
ConflictedIndex(head_commit, dep_tree) == merge_trees(<<>>, head_commit.tree, dep_tree)

\* C15: under squash vendor_merge never writes MERGE_HEAD and creates no
\* commit, and once the merge of the dependency was computed, clean or
\* conflicted, MERGE_MSG holds the message.
C15_SquashNeverSetsMergeHead ==
    /\ (MergeCalled /\ mlast.opts.squash) =>
          /\ repo.merge_head = mlast.before.merge_head
          /\ repo.commits = mlast.before.commits
          /\ repo.head = mlast.before.head
          /\ (mlast.ok \/ mlast.err = ERR_CONFLICT) =>
                repo.merge_msg = Some(MessageFor(Selected[1]) \o <<LF>>)
    \* the conflict path, on every index with conflicts for the repository as it is
    /\ \A x \in repo.refs, message \in Messages, no_commit \in BOOLEAN :
          IsSome(repo.head) =>
              LET dep   == [name |-> <<"x">>, pattern |-> PAT_STAR, url |-> URL_LOCAL,
                            branch |-> None]
                  index == ConflictedIndex(repo.head[1], x.target.tree)
                  res   == apply_merge(repo, dep, VendorMergeOpts(no_commit, TRUE, message),
                                       x.target, repo.head[1], index)
              IN  has_conflicts(index) =>
                      /\ ~res.ok /\ res.err = ERR_CONFLICT
                      /\ res.repo.merge_head = repo.merge_head
                      /\ res.repo.commits = repo.commits
                      /\ IsSome(res.repo.merge_msg)

\* C15 witness: a squash merge went through while MERGE_HEAD was absent
C15_Witness ==
    /\ MergeCalled /\ mlast.ok /\ mlast.opts.squash
    /\ repo.merge_head = None
    /\ IsSome(repo.merge_msg)
    /\ repo.index # mlast.before.index

\* C16: with no_commit or squash and more than one selected dependency,
\* vendor_merge fails with the single-dependency error and leaves HEAD, the
\* commits, the index, the working area and MERGE_HEAD/MERGE_MSG unchanged.
C16_DeferredBatchRejected ==
    (MergeCalled /\ (mlast.opts.no_commit \/ mlast.opts.squash) /\ Len(Selected) > 1) =>
        /\ ~mlast.ok
        /\ mlast.err = ERR_SINGLE_DEP
        /\ repo = mlast.before

\* C16 witness: the call was turned down although both vendor refs were there
C16_Witness ==
    /\ MergeCalled /\ mlast.opts.squash /\ Len(Selected) = 2
    /\ \A i \in 1..2 : IsSome(find_reference(repo, vendor_ref_name(Selected[i].name)))
    /\ IsSome(repo.head)
    /\ ~mlast.ok

\* the vendor content of `dep` and the tree of HEAD hold a path with
\* different content, and HEAD has never taken a merge
ConflictsWithLocalEdits(r, dep) ==
    /\ IsSome(r.head)
    /\ r.head[1].parents = <<>>
    /\ IsSome(find_reference(r, vendor_ref_name(dep.name)))
    /\ LET theirs == read_tree(filter_by_patterns(
                                   find_reference(r, vendor_ref_name(dep.name))[1].target.tree,
                                   <<dep.pattern>>).tree, <<>>)
           ours   == read_tree(r.head[1].tree, <<>>)
       IN  \E o \in ours, t \in theirs : o.path = t.path /\ o.blob # t.blob

\* C17: merging vendor content that conflicts with local edits fails with
\* the conflict error, leaves conflict markers in the working area, creates
\* no commit, and records MERGE_HEAD unless squashing.
C17_ConflictIsReported ==
    (MergeCalled /\ Len(Selected) = 1 /\ ConflictsWithLocalEdits(mlast.before, Selected[1])) =>
        /\ ~mlast.ok
        /\ mlast.err = ERR_CONFLICT
        /\ repo.commits = mlast.before.commits
        /\ \E f \in repo.workdir : f.content.conflict
        /\ ~mlast.opts.squash => repo.merge_head = Some(VendorCommitOf(Selected[1]))

\* C19: a vendor_merge that fails with an error other than the conflict
\* error leaves the repository exactly as it was when the call started.
C19_OnlyConflictMutates ==
    (MergeCalled /\ ~mlast.ok /\ mlast.err # ERR_CONFLICT) => repo = mlast.before

\* C20: after a clean vendor_merge that committed, neither MERGE_HEAD nor
\* MERGE_MSG remains.
C20_CommitClearsMergeState ==
    (MergeCalled /\ mlast.ok /\ Immediate) =>
        repo.merge_head = None /\ repo.merge_msg = None

-----------------------------------------------------------------------------
(* Properties of the Vendor trait on a bare repository (checked under      *)
(* SpecBare)                                                               *)

\* C18: on a bare repository track_pattern, untrack_pattern, vendor_status,
\* vendor_fetch and vendor_merge fail with the error of require_non_bare,
\* without reading the manifest and without changing the manifest or the
\* repository.
C18_BareIsUnsupported ==
    bare =>
        /\ last.op # "none" =>
              ~last.ok /\ last.err = ERR_BARE /\ ~last.read /\ file = last.before
        /\ mlast.op # "none" =>
              ~mlast.ok /\ mlast.err = ERR_BARE /\ ~mlast.read /\ repo = mlast.before

\* C18 witness: a registry call and a merge were turned down on a bare
\* repository that has the manifest and the vendor ref the merge would use
C18_Witness ==
    /\ bare
    /\ last.op = "track_pattern"
    /\ mlast.op = "vendor_merge"
    /\ parse_vendor_deps(file) # <<>>
    /\ repo.refs # {}

-----------------------------------------------------------------------------
(* Batches *)

Min(S) == CHOOSE x \in S : \A y \in S : x <= y

\* the number of selected dependencies before the first one for which `Fails` holds
PrefixBefore(deps, Fails(_)) ==
    LET bad == {i \in 1..Len(deps) : Fails(deps[i])}
    IN  IF bad = {} THEN Len(deps) ELSE Min(bad) - 1

\* nothing answers at the url of the dependency
FetchFails(dep) == ~IsSome(RemoteCommit(dep.url, dep.branch))

\* the dependency had no vendor ref when the call started
MergeFails(dep) == ~IsSome(find_reference(mlast.before, vendor_ref_name(dep.name)))

\* the refs the first k selected dependencies get from a fetch: for each name
\* the commit of the last of them that has the name
FetchedRefs(k) ==
    {[name |-> vendor_ref_name(Selected[i].name),
      target |-> RemoteCommit(Selected[i].url, Selected[i].branch)[1]] :
        i \in {j \in 1..k : \A l \in (j + 1)..k : Selected[l].name # Selected[j].name}}

\* C21: a batch goes through the selected dependencies one at a time in
\* manifest order and stops at the first failure: the dependencies before the
\* failing one keep the refs (vendor_fetch) or the commits (vendor_merge) the
\* call made for them, and no dependency after it is fetched or merged.
C21_BatchStopsAtFirstFailure ==
    /\ (mlast.op = "vendor_fetch" /\ Selected # <<>>) =>
          LET k     == PrefixBefore(Selected, FetchFails)
              names == {vendor_ref_name(Selected[i].name) : i \in 1..k}
          IN  /\ mlast.ok <=> k = Len(Selected)
              /\ repo.refs = {x \in mlast.before.refs : x.name \notin names}
                             \cup FetchedRefs(k)
    /\ (MergeCalled /\ Immediate /\ Selected # <<>> /\ IsSome(mlast.before.head)) =>
          LET k     == PrefixBefore(Selected, MergeFails)
              base  == mlast.before.head[1]
              chain == ChainFrom(repo.head[1], base)
          IN  /\ mlast.ok <=> k = Len(Selected)
              /\ Len(chain) = k
              /\ repo.commits = mlast.before.commits \cup Range(chain)
              /\ \A i \in 1..k : chain[i].parents[2] = VendorCommitOf(Selected[i])
              /\ repo.refs = mlast.before.refs

\* C21 witness: of three dependencies the first was merged and committed, the
\* second had no vendor ref, and the third, whose ref was there, was left alone
C21_Witness ==
    /\ MergeCalled /\ Immediate /\ ~mlast.ok
    /\ IsSome(mlast.before.head)
    /\ Len(Selected) = 3
    /\ PrefixBefore(Selected, MergeFails) = 1
    /\ ~MergeFails(Selected[3])
    /\ repo.head[1].parents = <<mlast.before.head[1], VendorCommitOf(Selected[1])>>

-----------------------------------------------------------------------------
(* The entries already there for a pattern *)

\* the places <<line, token>> of the entries on the lines for `pattern`
EntryPlaces(pattern, lines) ==
    UNION { {<<i, k>> : k \in 2..Len(SplitWhitespace(lines[i]))} :
            i \in {j \in 1..Len(lines) : IsLineFor(lines[j], pattern)} }

\* the name and state of the entry at a place
EntryOf(lines, p) == parse_attribute_string(SplitWhitespace(lines[p[1]])[p[2]])

\* place p comes after place q in file order
After(p, q) == p[1] > q[1] \/ (p[1] = q[1] /\ p[2] > q[2])

\* the states recorded for `name`: that of its last entry on a line for
\* `pattern`, or none
RecordedStates(name, pattern, lines) ==
    LET places == {p \in EntryPlaces(pattern, lines) : EntryOf(lines, p).name = name}
    IN  {EntryOf(lines, p).state : p \in {q \in places : \A o \in places : ~After(o, q)}}

\* the candidates, trimmed, that are not blank and whose state is not the recorded one
NewCandidates(pattern, attributes, lines) ==
    LET trimmed == [i \in 1..Len(attributes) |-> Trim(attributes[i])]
        IsNew(c) == /\ c # <<>>
                    /\ LET a == parse_attribute_string(c)
                       IN  a.state \notin RecordedStates(a.name, pattern, lines)
    IN  SelectSeq(trimmed, IsNew)

\* C22: filter_new_attributes returns, in candidate order, exactly the
\* non-blank candidates whose (name, state) differs from, or whose name is
\* absent from, the map built by reading in file order every non-comment line
\* whose first token is the pattern, a later entry overwriting an earlier one
\* of the same name; lines for other patterns have no influence.
C22_FilterNewAttributes ==
    last.op = "set_attr" =>
        filter_new_attributes(last.pattern, last.attrs, ReadFile(last.before))
            = NewCandidates(last.pattern, last.attrs, ReadFile(last.before))

\* C22 witness: two lines for the pattern give a name two different states
\* and a line for another pattern gives it too; of two candidates one is
\* returned and one is not
C22_Witness ==
    /\ SetAttrDone
    /\ LET lines  == ReadFile(last.before)
           places == EntryPlaces(last.pattern, lines)
       IN  /\ \E p, q \in places :
                 /\ p[1] # q[1]
                 /\ EntryOf(lines, p).name = EntryOf(lines, q).name
                 /\ EntryOf(lines, p).state # EntryOf(lines, q).state
           /\ \E i \in 1..Len(lines) : \E pat \in Patterns \ {last.pattern} :
                 IsLineFor(lines[i], pat)
           /\ Len(last.attrs) = 2
           /\ Len(filter_new_attributes(last.pattern, last.attrs, lines)) = 1

\* the lines the last call added to the manifest
AppendedLines ==
    SubSeq(ReadFile(file), Len(ReadFile(last.before)) + 1, Len(ReadFile(file)))

\* C23: later lines do not override earlier ones: set_attr never appends an
\* entry whose name and state already appear on some line of the manifest for
\* the same pattern, whatever the other lines for the pattern say about the name.
C23_NeverAppendsPresentEntry ==
    SetAttrDone =>
        \A i \in 1..Len(AppendedLines) :
            LET parts == SplitWhitespace(AppendedLines[i])
            IN  \A k \in 2..Len(parts) :
                    ~PresentOnSomeLine(parts[k], last.pattern, ReadFile(last.before))

\* C23 as the program has it: what decides is the last entry for the name on
\* the lines for the pattern. set_attr appends exactly the requested entries
\* whose state is not that last state: an entry that stands on an earlier
\* line and is overridden by a later line for the pattern is appended again,
\* an entry equal to the last one never is.
C23_NeverAppendsRecordedEntry ==
    SetAttrDone =>
        LET lines == ReadFile(last.before)
            kept  == NewCandidates(last.pattern, last.attrs, lines)
        IN  /\ AppendedLines = IF kept = <<>> THEN <<>>
                               ELSE <<JoinSpace(<<last.pattern>> \o kept)>>
            /\ \A i \in 1..Len(last.attrs) :
                  LET c == Trim(last.attrs[i])
                      a == parse_attribute_string(c)
                  IN  c # <<>> =>
                        (c \in Range(kept)
                            <=> a.state \notin RecordedStates(a.name, last.pattern, lines))

\* C23 witness: the requested entry stood on a line for the pattern, a later
\* line for the pattern gave the name another state, and the entry was
\* appended again
C23_Witness ==
    /\ SetAttrDone
    /\ Len(last.attrs) = 1
    /\ PresentOnSomeLine(last.attrs[1], last.pattern, ReadFile(last.before))
    /\ AppendedLines = <<JoinSpace(<<last.pattern, Trim(last.attrs[1])>>)>>

-----------------------------------------------------------------------------
(* The spellings of an attribute state *)

\* attribute names and values to spell entries with
SpelledNames  == {<<"a">>, <<"b">>, <<"text">>}
SpelledValues == {<<"v">>, <<"w">>, <<"v", SP, "w">>, <<>>, <<"set">>}

\* the states of the manifest format
Set         == [kind |-> "Set", value |-> <<>>]
Unset       == [kind |-> "Unset", value |-> <<>>]
Unspecified == [kind |-> "Unspecified", value |-> <<>>]
Value(v)    == [kind |-> "Value", value |-> v]
States      == {Set, Unset, Unspecified} \cup {Value(v) : v \in SpelledValues}

\* the tokens that spell `state` for `name`
Spellings(name, state) ==
    CASE state = Set         -> {name, name \o <<"=", "true">>}
      [] state = Unset       -> {<<"-">> \o name, name \o <<"=", "false">>}
      [] state = Unspecified -> {<<"!">> \o name}
      [] OTHER               -> {name \o <<"=">> \o state.value}

\* the string parse_attribute_string is to give for a state
StateString(state) ==
    CASE state = Set         -> <<"set">>
      [] state = Unset       -> <<"unset">>
      [] state = Unspecified -> <<"unspecified">>
      [] OTHER               -> <<"value", ":">> \o state.value

\* C24: parse_attribute_string classifies a token, after trimming, as:
\* `name` and `name=true` -> (name, Set); `-name` and `name=false` ->
\* (name, Unset); `!name` -> (name, Unspecified); `name=value` with a value
\* other than true and false -> (name, Value(value)). Two spellings of one
\* state of one name compare equal, and spellings of two different states
\* or values, or of two names, never do.
C24_ParseClassifiesSpellings ==
    last.op = "set_attr" =>
        \A i \in 1..Len(last.attrs) : \A name \in SpelledNames, state \in States :
            Trim(last.attrs[i]) \in Spellings(name, state) =>
                /\ parse_attribute_string(last.attrs[i])
                       = [name |-> name, state |-> StateString(state)]
                /\ \A name2 \in SpelledNames, state2 \in States :
                      \A other \in Spellings(name2, state2) :
                          (parse_attribute_string(other)
                               = parse_attribute_string(last.attrs[i]))
                              <=> (name2 = name /\ state2 = state)

\* C24 witness: an entry was asked for in one spelling, the manifest had it
\* in the other spelling of the same state, and nothing was appended
C24_Witness ==
    /\ SetAttrDone
    /\ Len(last.attrs) = 1
    /\ \E name \in SpelledNames, state \in States :
          /\ last.attrs[1] \in Spellings(name, state)
          /\ \E other \in Spellings(name, state) \ {last.attrs[1]} :
                PresentOnSomeLine(other, last.pattern, ReadFile(last.before))
          /\ \A k \in 1..Len(ReadFile(last.before)) :
                last.attrs[1] \notin Range(SplitWhitespace(ReadFile(last.before)[k]))
    /\ AppendedLines = <<>>

-----------------------------------------------------------------------------
(* The dependencies of a manifest *)

Max(S) == CHOOSE x \in S : \A y \in S : x >= y

\* the value of the last token of the line, after the first, that starts
\* with `prefix`, or None
LastValue(line, prefix) ==
    LET parts == SplitWhitespace(line)
        ks    == {k \in 2..Len(parts) : StartsWith(parts[k], prefix)}
    IN  IF ks = {} THEN None ELSE Some(Drop(parts[Max(ks)], Len(prefix)))

\* a line that is neither blank nor a comment and carries the marker, a name and a url
IsDepLine(line) ==
    /\ Trim(line) # <<>>
    /\ Trim(line)[1] # "#"
    /\ VENDORED \in Range(Tail(SplitWhitespace(line)))
    /\ IsSome(LastValue(line, VENDOR_NAME))
    /\ IsSome(LastValue(line, VENDOR_URL))

\* the dependency such a line stands for
DepOf(line) ==
    [name    |-> LastValue(line, VENDOR_NAME)[1],
     pattern |-> SplitWhitespace(line)[1],
     url     |-> LastValue(line, VENDOR_URL)[1],
     branch  |-> LastValue(line, VENDOR_BRANCH)]

-----------------------------------------------------------------------------
(* Subtrees the store cannot read *)

\* the tree without the directories, at any depth, that the store cannot read
RECURSIVE Readable(_)
Readable(t) ==
    IF t = <<>> THEN <<>>
    ELSE LET e == Head(t)
         IN  IF e.kind = "tree" /\ ~e.loadable THEN Readable(Tail(t))
             ELSE IF e.kind = "tree" THEN <<[e EXCEPT !.sub = Readable(e.sub)]>> \o Readable(Tail(t))
             ELSE <<e>> \o Readable(Tail(t))

\* C26: when filtering a child subtree fails with an error of the object
\* store, be it while the subtree is loaded or while it is filtered below,
\* filter_by_patterns leaves that subtree out of the result and still
\* succeeds: the failure is not propagated.
C26_FailingSubtreeIsExcluded ==
    (IsSome(once) /\ ValidPatterns(patterns)) =>
        /\ once[1].ok
        /\ BlobsOf(once[1].tree, <<>>) = Retained(Readable(tree), patterns)

-----------------------------------------------------------------------------
(* What a merge leaves alone *)

\* the entries of the tree of the commit HEAD was at when the call started
\* whose path the pattern of no selected dependency matches
OwnEntries ==
    {e \in read_tree(mlast.before.head[1].tree, <<>>) :
        \A i \in 1..Len(Selected) : ~GlobMatch(Selected[i].pattern, e.path)}

\* C27: in a clean vendor_merge every path of the head tree that the pattern
\* of the dependency does not match is in the merged tree, and in the commit,
\* the index and the working area made from it, with the content and the
\* mode it has in the head tree: only vendor content changes.
C27_MergeKeepsUnmatchedPaths ==
    (MergeCalled /\ mlast.ok) =>
        \A e \in OwnEntries :
            /\ e \in repo.index
            /\ [path |-> e.path, content |-> Checkout(e.blob)] \in repo.workdir
            /\ Immediate => e \in read_tree(repo.head[1].tree, <<>>)

-----------------------------------------------------------------------------
(* What a fetch writes *)

\* refs/vendor/<name>
VendorRef(name) == <<"refs", "/", "vendor", "/">> \o name

\* C28: for every selected dependency vendor_fetch writes exactly the ref
\* refs/vendor/<name>, which the name of the dependency alone determines and
\* which is the ref vendor_merge resolves for the dependency; it changes no
\* other ref, and neither HEAD, the index, the working area nor the manifest.
C28_FetchWritesOnlyVendorRefs ==
    [][ mlast'.op = "vendor_fetch" =>
          \A deps \in {filter_deps(parse_vendor_deps(file'), mlast'.pattern)} :
          \A after \in {repo'} :
              LET names == {VendorRef(deps[i].name) : i \in 1..Len(deps)}
              IN  /\ file' = file
                  /\ after.head = repo.head
                  /\ after.index = repo.index
                  /\ after.workdir = repo.workdir
                  /\ after.merge_head = repo.merge_head
                  /\ after.merge_msg = repo.merge_msg
                  /\ \A x \in (after.refs \ repo.refs) \cup (repo.refs \ after.refs) :
                        x.name \in names
                  /\ mlast'.ok =>
                        \A i \in 1..Len(deps) :
                            /\ \E x \in after.refs : x.name = VendorRef(deps[i].name)
                            /\ IsSome(find_reference(after, vendor_ref_name(deps[i].name)))
                            /\ merge_dep(after, deps[i], NoCall.opts).err
                                   # ERR_REF_NOT_FOUND
    ]_vars

\* C28 witness: a fetch of two dependencies went through on a repository
\* with a commit and with one vendor ref already there; two vendor refs are
\* there now
C28_Witness ==
    /\ mlast.op = "vendor_fetch" /\ mlast.ok
    /\ Len(Selected) = 2
    /\ IsSome(repo.head)
    /\ Cardinality(mlast.before.refs) = 1
    /\ {x.name : x \in repo.refs} = {VendorRef(Selected[i].name) : i \in 1..2}

-----------------------------------------------------------------------------
(* track_pattern followed by untrack_pattern *)

\* the manifest has no line for `pattern` that carries a vendor attribute
NoVendorLineFor(f, pattern) ==
    \A line \in Range(ReadFile(f)) : ~IsVendorLineFor(line, pattern)

\* C29: on a manifest with no vendor-attribute line for P, a successful
\* track_pattern(P, ...) followed by untrack_pattern(P) gives back the
\* sequence of lines the manifest had, and parse_vendor_deps then reports no
\* dependency with pattern P.
C29_TrackThenUntrackRestores ==
    (TrackDone /\ NoVendorLineFor(last.before, last.pattern)) =>
        \A u \in {untrack_pattern(bare, last.pattern, file)} :
            /\ u.ok
            /\ ReadFile(u.file) = ReadFile(last.before)
            /\ \A d \in Range(parse_vendor_deps(u.file)) : d.pattern # last.pattern

-----------------------------------------------------------------------------
(* Entries written and read back *)

\* C30: every token validate_attributes accepts, once set_attr has written
\* it on a line for pattern P, is read back from that line as one entry with
\* the same name and state under P, so that from then on filter_new_attributes
\* takes the entry for present.
C30_WrittenEntryIsReadBack ==
    (SetAttrDone /\ AppendedLines # <<>>) =>
        \A kept \in {filter_new_attributes(last.pattern, last.attrs, ReadFile(last.before))} :
            /\ SplitWhitespace(AppendedLines[1]) = <<last.pattern>> \o kept
            /\ \A i \in 1..Len(kept) :
                  filter_new_attributes(last.pattern, <<kept[i]>>, ReadFile(file)) = <<>>

====
